---- MODULE Spec2Model ----
(***************************************************************************)
(* Model of the chess core of chessrl: the position model and move         *)
(* validator (game/board.rs, game/piece.rs) and the analysis, ranking,     *)
(* evaluation and Monte-Carlo tree search of engine/rl.rs.                 *)
(*                                                                         *)
(* A square is <<rank, file>> with both indices in 0..7, as in the source. *)
(* A board is a function from squares to pieces; the empty square is the   *)
(* record None (Option::None of the source).                               *)
(***************************************************************************)
EXTENDS Integers, Sequences, FiniteSets, TLC

\* ------------------------------------------------------------------------
\* Bounds of the model (not program constants)
\* ------------------------------------------------------------------------
\* number of move_piece calls made on one board in the board specification
MaxCalls == 1

\* number of accepted moves played on from a small position before ranking
MaxPlays == 1

\* characters of a text handed to parse_coordinate
MaxCoordLen == 3

\* characters in the command buffer, and commands entered
MaxBufferLen == 6
MaxCommands == 1

\* calls of analyze_board recorded on one position
MaxAnalyses == 2

\* iterations of the search loop that fit into the five seconds
MaxIterations == 4

\* how many of the leading ranked moves a rollout ply may draw from
MaxRolloutChoices == 1

\* root children, and visits of one child, when the statistics are refreshed
MaxChildren == 4
MaxVisits == 3

\* iterations the loop is followed for around the first refresh
MaxStatsIterations == 52

\* ------------------------------------------------------------------------
\* game/piece.rs
\* ------------------------------------------------------------------------
PieceType == {"King", "Queen", "Rook", "Bishop", "Knight", "Pawn"}

Color == {"White", "Black"}

opposite(c) == IF c = "White" THEN "Black" ELSE "White"

Piece(t, c) == [piece_type |-> t, color |-> c]

None == [piece_type |-> "None", color |-> "None"]

\* ------------------------------------------------------------------------
\* game/board.rs
\* ------------------------------------------------------------------------
Idx == 0..7

Squares == Idx \X Idx

EmptyBoard == [s \in Squares |-> None]

back_rank == <<"Rook", "Knight", "Bishop", "Queen", "King", "Bishop", "Knight", "Rook">>

\* Board::new followed by initialize_pieces
NewBoard ==
    [s \in Squares |->
        CASE s[1] = 7 -> Piece(back_rank[s[2] + 1], "White")
          [] s[1] = 6 -> Piece("Pawn", "White")
          [] s[1] = 0 -> Piece(back_rank[s[2] + 1], "Black")
          [] s[1] = 1 -> Piece("Pawn", "Black")
          [] OTHER    -> None]

get_piece(sq, pos) == sq[pos]

is_some(p) == p # None

is_none(p) == p = None

abs(x) == IF x < 0 THEN -x ELSE x

signum(x) == IF x > 0 THEN 1 ELSE IF x < 0 THEN -1 ELSE 0

\* validate_pawn_move without the test of the square a double step jumps over
validate_pawn_move_jump(sq, from, to, color) ==
    LET direction  == IF color = "White" THEN -1 ELSE 1
        start_rank == IF color = "White" THEN 6 ELSE 1
    IN  IF from[2] = to[2]
        THEN \/ (to[1] = from[1] + direction /\ is_none(sq[to]))
             \/ /\ from[1] = start_rank
                /\ to[1] = from[1] + (2 * direction)
                /\ is_none(sq[to])
        ELSE IF (to[2] = from[2] - 1 \/ to[2] = from[2] + 1)
                /\ to[1] = from[1] + direction
             THEN is_some(sq[to])
             ELSE FALSE

validate_pawn_move(sq, from, to, color) ==
    LET direction  == IF color = "White" THEN -1 ELSE 1
        start_rank == IF color = "White" THEN 6 ELSE 1
        from_rank  == from[1]
        from_file  == from[2]
        to_rank    == to[1]
        to_file    == to[2]
    IN  IF from_file = to_file
        THEN \/ (to_rank = from_rank + direction /\ is_none(sq[to]))
             \/ /\ from[1] = start_rank
                /\ to_rank = from_rank + (2 * direction)
                /\ is_none(sq[to])
                /\ is_none(sq[<<from_rank + direction, from[2]>>])
        ELSE IF (to_file = from_file - 1 \/ to_file = from_file + 1)
                /\ to_rank = from_rank + direction
             THEN is_some(sq[to])
             ELSE FALSE

\* the while loop shared by validate_rook_move and validate_bishop_move:
\* walks from current to to in steps of (rank_step, file_step) and fails on
\* the first occupied square strictly before to
\* the path walk that looks at no square on the way
path_clear_unchecked(sq, current, to, rank_step, file_step) == TRUE

RECURSIVE path_clear(_, _, _, _, _)
path_clear(sq, current, to, rank_step, file_step) ==
    IF current = to THEN TRUE
    ELSE IF is_some(sq[current]) THEN FALSE
    ELSE path_clear(sq, <<current[1] + rank_step, current[2] + file_step>>,
                    to, rank_step, file_step)

validate_rook_move(sq, from, to) ==
    IF from[1] # to[1] /\ from[2] # to[2] THEN FALSE
    ELSE LET rank_step == signum(to[1] - from[1])
             file_step == signum(to[2] - from[2])
         IN  path_clear(sq, <<from[1] + rank_step, from[2] + file_step>>,
                        to, rank_step, file_step)

validate_knight_move(sq, from, to) ==
    LET rank_diff == abs(to[1] - from[1])
        file_diff == abs(to[2] - from[2])
    IN  (rank_diff = 2 /\ file_diff = 1) \/ (rank_diff = 1 /\ file_diff = 2)

validate_bishop_move(sq, from, to) ==
    LET rank_diff == abs(to[1] - from[1])
        file_diff == abs(to[2] - from[2])
    IN  IF rank_diff # file_diff THEN FALSE
        ELSE LET rank_step == signum(to[1] - from[1])
                 file_step == signum(to[2] - from[2])
             IN  path_clear(sq, <<from[1] + rank_step, from[2] + file_step>>,
                            to, rank_step, file_step)

validate_queen_move(sq, from, to) ==
    validate_rook_move(sq, from, to) \/ validate_bishop_move(sq, from, to)

validate_king_move(sq, from, to) ==
    LET rank_diff == abs(to[1] - from[1])
        file_diff == abs(to[2] - from[2])
    IN  rank_diff <= 1 /\ file_diff <= 1

\* the piece-specific dispatch of move_piece (the match on piece_type)
valid(sq, piece, from, to) ==
    CASE piece.piece_type = "Pawn"   -> validate_pawn_move(sq, from, to, piece.color)
      [] piece.piece_type = "Rook"   -> validate_rook_move(sq, from, to)
      [] piece.piece_type = "Knight" -> validate_knight_move(sq, from, to)
      [] piece.piece_type = "Bishop" -> validate_bishop_move(sq, from, to)
      [] piece.piece_type = "Queen"  -> validate_queen_move(sq, from, to)
      [] piece.piece_type = "King"   -> validate_king_move(sq, from, to)

\* move_piece that empties the from square before the piece rule is consulted
move_piece_partial(sq, from, to) ==
    IF from = to THEN [ret |-> FALSE, squares |-> sq]
    ELSE IF is_none(sq[from]) THEN [ret |-> FALSE, squares |-> sq]
    ELSE IF is_some(sq[to]) /\ sq[to].color = sq[from].color
         THEN [ret |-> FALSE, squares |-> sq]
    ELSE IF ~valid(sq, sq[from], from, to)
         THEN [ret |-> FALSE, squares |-> [sq EXCEPT ![from] = None]]
    ELSE [ret |-> TRUE,
          squares |-> [sq EXCEPT ![from] = None, ![to] = sq[from]]]

\* move_piece that writes the destination and forgets to empty the origin
move_piece_copy(sq, from, to) ==
    IF from = to THEN [ret |-> FALSE, squares |-> sq]
    ELSE IF is_none(sq[from]) THEN [ret |-> FALSE, squares |-> sq]
    ELSE IF is_some(sq[to]) /\ sq[to].color = sq[from].color
         THEN [ret |-> FALSE, squares |-> sq]
    ELSE IF ~valid(sq, sq[from], from, to) THEN [ret |-> FALSE, squares |-> sq]
    ELSE [ret |-> TRUE, squares |-> [sq EXCEPT ![to] = sq[from]]]

\* move_piece that refuses a move after which an enemy piece could move onto
\* the mover's king
move_piece_legal(sq, from, to) ==
    IF from = to THEN [ret |-> FALSE, squares |-> sq]
    ELSE IF is_none(sq[from]) THEN [ret |-> FALSE, squares |-> sq]
    ELSE IF is_some(sq[to]) /\ sq[to].color = sq[from].color
         THEN [ret |-> FALSE, squares |-> sq]
    ELSE IF ~valid(sq, sq[from], from, to) THEN [ret |-> FALSE, squares |-> sq]
    ELSE LET after == [sq EXCEPT ![from] = None, ![to] = sq[from]]
             me    == sq[from].color
         IN  IF \E k \in Squares, s \in Squares :
                    /\ after[k].piece_type = "King" /\ after[k].color = me
                    /\ is_some(after[s]) /\ after[s].color # me
                    /\ valid(after, after[s], s, k)
             THEN [ret |-> FALSE, squares |-> sq]
             ELSE [ret |-> TRUE, squares |-> after]

\* Board::move_piece: the returned bool and the squares after the call
move_piece(sq, from, to) ==
    IF from = to THEN [ret |-> FALSE, squares |-> sq]
    ELSE IF is_none(sq[from]) THEN [ret |-> FALSE, squares |-> sq]
    ELSE IF is_some(sq[to]) /\ sq[to].color = sq[from].color
         THEN [ret |-> FALSE, squares |-> sq]
    ELSE IF ~valid(sq, sq[from], from, to) THEN [ret |-> FALSE, squares |-> sq]
    ELSE [ret |-> TRUE,
          squares |-> [sq EXCEPT ![from] = None, ![to] = sq[from]]]

\* ------------------------------------------------------------------------
\* engine/rl.rs: board analysis
\* ------------------------------------------------------------------------
\* the order of "for rank in 0..8 { for file in 0..8 {" (row-major)
SquareSeq == SubSeq([i \in 1..64 |-> <<(i - 1) \div 8, (i - 1) % 8>>], 1, 64)

\* Option<(usize, usize)>::None
NoSquare == <<8, 8>>

SeqSet(q) == {q[i] : i \in 1..Len(q)}

piece_values(t) ==
    CASE t = "Pawn"   -> 100
      [] t = "Knight" -> 320
      [] t = "Bishop" -> 330
      [] t = "Rook"   -> 500
      [] t = "Queen"  -> 900
      [] t = "King"   -> 20000

\* the first square, in scan order, that holds the king of the colour
find_king(b, color) ==
    LET found == SelectSeq(SquareSeq, LAMBDA s : b[s] = Piece("King", color))
    IN  IF found = <<>> THEN NoSquare ELSE Head(found)

\* a variant that makes the trial move on the analysed board itself
try_move_in_place(b, pos, to) ==
    LET r == move_piece(b, pos, to)
    IN  [ret |-> r.ret, board |-> r.squares]

\* one trial of get_piece_moves: board_copy = board.clone(), then
\* board_copy.move_piece(pos, to); the copy is dropped, the board stays
try_move(b, pos, to) ==
    LET board_copy == b
        r == move_piece(board_copy, pos, to)
    IN  [ret |-> r.ret, board |-> b]

\* the destinations for which move_piece succeeds on a clone, in scan order
get_piece_moves(b, pos) ==
    SelectSeq(SquareSeq, LAMBDA to : try_move(b, pos, to).ret)

\* sequencing: v is computed, then F is applied to its value
then_apply(v, F(_)) == CHOOSE r \in {F(x) : x \in {v}} : TRUE

\* the board get_piece_moves leaves behind after the trials with the
\* destinations SquareSeq[lo..hi], made in scan order
RECURSIVE board_after_trials(_, _, _, _)
board_after_trials(b, pos, lo, hi) ==
    IF lo > hi THEN b
    ELSE IF lo = hi THEN try_move(b, pos, SquareSeq[lo]).board
    ELSE then_apply(board_after_trials(b, pos, lo, (lo + hi) \div 2),
                    LAMBDA left : board_after_trials(left, pos, (lo + hi) \div 2 + 1, hi))

\* the balance with the pieces of the other colour left out
RECURSIVE balance_over_own(_, _, _)
balance_over_own(b, color, occupied) ==
    IF occupied = <<>> THEN 0
    ELSE (IF b[Head(occupied)].color = color
          THEN piece_values(b[Head(occupied)].piece_type)
          ELSE 0)
         + balance_over_own(b, color, Tail(occupied))

RECURSIVE balance_over(_, _, _)
balance_over(b, color, occupied) ==
    IF occupied = <<>> THEN 0
    ELSE (IF b[Head(occupied)].color = color
          THEN piece_values(b[Head(occupied)].piece_type)
          ELSE -piece_values(b[Head(occupied)].piece_type))
         + balance_over(b, color, Tail(occupied))

get_material_balance(b, color) ==
    balance_over(b, color, SelectSeq(SquareSeq, LAMBDA s : is_some(b[s])))

\* evaluate_king_safety: +1 for every square of the 3x3 block around the
\* king (the king's own square included: the offsets run over -1..=1 on both
\* axes) that holds a piece of the colour, -2 for every threat on the king
evaluate_king_safety(b, king_pos, color, threats) ==
    Cardinality({o \in (-1..1) \X (-1..1) :
                    LET rank == king_pos[1] + o[1]
                        file == king_pos[2] + o[2]
                    IN  /\ rank >= 0 /\ rank < 8 /\ file >= 0 /\ file < 8
                        /\ is_some(b[<<rank, file>>])
                        /\ b[<<rank, file>>].color = color})
    - 2 * Len(SelectSeq(threats, LAMBDA t : t[2] = king_pos))

\* controlled_squares is the [[bool; 8]; 8] of the source kept as the set of
\* the squares whose entry is true
evaluate_center_control(controlled_squares) ==
    Cardinality({s \in (3..4) \X (3..4) : s \in controlled_squares})

\* piece_mobility (a HashMap from square to Vec of squares) is kept as the
\* sequence of its entries <<pos, moves>> in the order of insertion
RECURSIVE mobility_of(_, _)
mobility_of(b, occupied) ==
    IF occupied = <<>> THEN <<>>
    ELSE << <<Head(occupied), get_piece_moves(b, Head(occupied))>> >>
         \o mobility_of(b, Tail(occupied))

\* HashMap::get
mobility_get(piece_mobility, pos) ==
    LET hit == SelectSeq(piece_mobility, LAMBDA e : e[1] = pos)
    IN  IF hit = <<>> THEN <<>> ELSE hit[1][2]

RECURSIVE pair_with(_, _)
pair_with(pos, targets) ==
    IF targets = <<>> THEN <<>>
    ELSE << <<pos, Head(targets)>> >> \o pair_with(pos, Tail(targets))

\* the threat list: for every enemy piece, in scan order, its destinations
\* that hold a piece of the reference colour
RECURSIVE threats_of(_, _, _)
threats_of(b, color, piece_mobility) ==
    IF piece_mobility = <<>> THEN <<>>
    ELSE (IF b[piece_mobility[1][1]].color # color
          THEN pair_with(piece_mobility[1][1],
                         SelectSeq(piece_mobility[1][2],
                                   LAMBDA t : is_some(b[t]) /\ b[t].color = color))
          ELSE <<>>)
         \o threats_of(b, color, Tail(piece_mobility))

\* a variant that marks only the first destination of every piece
RECURSIVE controlled_of_first(_)
controlled_of_first(piece_mobility) ==
    IF piece_mobility = <<>> THEN {}
    ELSE (IF piece_mobility[1][2] = <<>> THEN {} ELSE {piece_mobility[1][2][1]})
         \cup controlled_of_first(Tail(piece_mobility))

RECURSIVE controlled_of(_)
controlled_of(piece_mobility) ==
    IF piece_mobility = <<>> THEN {}
    ELSE {piece_mobility[1][2][i] : i \in 1..Len(piece_mobility[1][2])}
         \cup controlled_of(Tail(piece_mobility))

\* analyze_board, given the mobility map its scan computes
analysis_of(b, color, piece_mobility, controlled, threats, king_pos) ==
    [controlled_squares |-> controlled,
     piece_mobility     |-> piece_mobility,
     threats            |-> threats,
     king_safety        |-> IF king_pos # NoSquare
                            THEN evaluate_king_safety(b, king_pos, color, threats)
                            ELSE 0,
     material_balance   |-> get_material_balance(b, color),
     center_control     |-> evaluate_center_control(controlled)]

analyze_board(b, color) ==
    LET piece_mobility ==
            mobility_of(b, SelectSeq(SquareSeq, LAMBDA s : is_some(b[s])))
    IN  analysis_of(b, color, piece_mobility, controlled_of(piece_mobility),
                    threats_of(b, color, piece_mobility), find_king(b, color))

\* the board analyze_board leaves behind after scanning the squares
\* SquareSeq[lo..hi]: get_piece_moves is called for every occupied one
RECURSIVE board_after_scan(_, _, _)
board_after_scan(b, lo, hi) ==
    IF lo > hi THEN b
    ELSE IF lo = hi
         THEN IF is_some(b[SquareSeq[lo]])
              THEN board_after_trials(b, SquareSeq[lo], 1, 64)
              ELSE b
    ELSE then_apply(board_after_scan(b, lo, (lo + hi) \div 2),
                    LAMBDA left : board_after_scan(left, (lo + hi) \div 2 + 1, hi))

board_after_analysis(b) == board_after_scan(b, 1, 64)

\* the self-check test that looks for the king of the wrong colour
is_king_threatened_other(b, color) ==
    LET king_pos == find_king(b, opposite(color))
    IN  IF king_pos # NoSquare
        THEN king_pos \in analyze_board(b, color).controlled_squares
        ELSE FALSE

is_king_threatened(b, color) ==
    LET king_pos == find_king(b, color)
    IN  IF king_pos # NoSquare
        THEN king_pos \in analyze_board(b, opposite(color)).controlled_squares
        ELSE FALSE

\* ------------------------------------------------------------------------
\* engine/rl.rs: position evaluation
\* Scores are f32 in the source; the model keeps them as integers in
\* hundredths (all weights are multiples of 0.1, the noise is sampled to
\* 0.01), leaving f32 rounding aside.
\* ------------------------------------------------------------------------
\* rng.gen_range(-0.2..0.2): the half-open range [-0.2, 0.2), its lowest
\* and its highest sampled value, in hundredths
NoiseValues == {-20, 19}

RECURSIVE mobility_sum(_)
mobility_sum(piece_mobility) ==
    IF piece_mobility = <<>> THEN 0
    ELSE Len(piece_mobility[1][2]) + mobility_sum(Tail(piece_mobility))

\* a variant that weighs the two king-safety values the other way round
evaluation_terms_swapped(analysis, opponent_analysis, noise) ==
    [material     |-> 100 * analysis.material_balance,
     king_safety  |-> 300 * opponent_analysis.king_safety,
     opp_safety   |-> -250 * analysis.king_safety,
     mobility     |-> 10 * mobility_sum(analysis.piece_mobility),
     threats      |-> -200 * Len(analysis.threats),
     center       |-> 150 * analysis.center_control,
     noise        |-> noise]

\* the terms evaluate_position adds up, each with its weight applied
evaluation_terms(analysis, opponent_analysis, noise) ==
    [material     |-> 100 * analysis.material_balance,
     king_safety  |-> 300 * analysis.king_safety,
     opp_safety   |-> -250 * opponent_analysis.king_safety,
     mobility     |-> 10 * mobility_sum(analysis.piece_mobility),
     threats      |-> -200 * Len(analysis.threats),
     center       |-> 150 * analysis.center_control,
     noise        |-> noise]

score_of(t) ==
    t.material + t.king_safety + t.opp_safety + t.mobility + t.threats + t.center + t.noise

\* evaluate_position: the score and the terms it is made of
evaluate_position(b, color, noise) ==
    LET t == evaluation_terms(analyze_board(b, color),
                              analyze_board(b, opposite(color)), noise)
    IN  [score |-> score_of(t), terms |-> t]

\* ------------------------------------------------------------------------
\* engine/rl.rs: move ranking
\* ------------------------------------------------------------------------
MAX_OPPONENT_MOVES == 150

\* the priority with the 50 given for a threatened destination
evaluate_move_priority_to(b, from, to, analysis) ==
    (IF is_some(b[to]) THEN piece_values(b[to].piece_type) ELSE 0)
    + (IF \E i \in 1..Len(analysis.threats) : analysis.threats[i][2] = to
       THEN 50 ELSE 0)
    + (IF (to[1] >= 3 /\ to[1] <= 4) /\ (to[2] >= 3 /\ to[2] <= 4) THEN 10 ELSE 0)

evaluate_move_priority(b, from, to, analysis) ==
    (IF is_some(b[to]) THEN piece_values(b[to].piece_type) ELSE 0)
    + (IF \E i \in 1..Len(analysis.threats) : analysis.threats[i][2] = from
       THEN 50 ELSE 0)
    + (IF (to[1] >= 3 /\ to[1] <= 4) /\ (to[2] >= 3 /\ to[2] <= 4) THEN 10 ELSE 0)

\* Vec::sort_by(|a, b| b.2.partial_cmp(&a.2)): a stable sort, descending in
\* the score (third component); x goes behind every entry whose score is
\* not smaller than its own
\* an insertion that puts x in front of the entries with its own score
RECURSIVE insert_before_equal(_, _)
insert_before_equal(sorted, x) ==
    IF sorted = <<>> THEN <<x>>
    ELSE IF Head(sorted)[3] > x[3]
         THEN <<Head(sorted)>> \o insert_before_equal(Tail(sorted), x)
         ELSE <<x>> \o sorted

RECURSIVE insert_by_score(_, _)
insert_by_score(sorted, x) ==
    IF sorted = <<>> THEN <<x>>
    ELSE IF Head(sorted)[3] >= x[3]
         THEN <<Head(sorted)>> \o insert_by_score(Tail(sorted), x)
         ELSE <<x>> \o sorted

RECURSIVE sort_by_score(_)
sort_by_score(q) ==
    IF q = <<>> THEN <<>>
    ELSE insert_by_score(sort_by_score(SubSeq(q, 1, Len(q) - 1)), q[Len(q)])

truncate(q, n) == IF Len(q) > n THEN SubSeq(q, 1, n) ELSE q

RECURSIVE scored(_, _, _, _)
scored(b, from, tos, analysis) ==
    IF tos = <<>> THEN <<>>
    ELSE << <<from, Head(tos), evaluate_move_priority(b, from, Head(tos), analysis)>> >>
         \o scored(b, from, Tail(tos), analysis)

\* the moves of the piece on from that pass the self-check filter, scored
moves_from(b, color, from, analysis) ==
    scored(b, from,
           SelectSeq(mobility_get(analysis.piece_mobility, from),
                     LAMBDA to :
                         LET r == move_piece(b, from, to)
                         IN  r.ret /\ ~is_king_threatened(r.squares, color)),
           analysis)

RECURSIVE moves_of(_, _, _, _)
moves_of(b, color, own, analysis) ==
    IF own = <<>> THEN <<>>
    ELSE moves_from(b, color, Head(own), analysis)
         \o moves_of(b, color, Tail(own), analysis)

\* a variant that hands every move out backwards, destination first
RECURSIVE strip_score_reversed(_)
strip_score_reversed(q) ==
    IF q = <<>> THEN <<>>
    ELSE << <<Head(q)[2], Head(q)[1]>> >> \o strip_score_reversed(Tail(q))

RECURSIVE strip_score(_)
strip_score(q) ==
    IF q = <<>> THEN <<>>
    ELSE << <<Head(q)[1], Head(q)[2]>> >> \o strip_score(Tail(q))

generate_ranked_moves(b, color) ==
    strip_score(
        truncate(
            sort_by_score(
                moves_of(b, color,
                         SelectSeq(SquareSeq, LAMBDA s : is_some(b[s]) /\ b[s].color = color),
                         analyze_board(b, color))),
            MAX_OPPONENT_MOVES))

\* ------------------------------------------------------------------------
\* utils.rs
\* ------------------------------------------------------------------------
FileLetters == <<"a", "b", "c", "d", "e", "f", "g", "h">>

Digits == <<"0", "1", "2", "3", "4", "5", "6", "7", "8", "9">>

\* coordinate_to_string: the file letter then the rank digit 8 - pos.0, as
\* the sequence of its characters
coordinate_to_string(pos) == <<FileLetters[pos[2] + 1], Digits[(8 - pos[1]) + 1]>>

\* Strings are kept as the sequences of their characters.  The characters
\* the model types, with their code points ("e-acute" stands for the one
\* character U+00E9, two bytes in UTF-8):
UpperLetters == <<"A", "B", "C", "D", "E", "F", "G", "H", "I">>

LowerLetters == <<"a", "b", "c", "d", "e", "f", "g", "h", "i">>

SeqIndex(q, x) == CHOOSE i \in 1..Len(q) : q[i] = x

InSeq(q, x) == \E i \in 1..Len(q) : q[i] = x

char_code(c) ==
    CASE InSeq(Digits, c)       -> 48 + (SeqIndex(Digits, c) - 1)
      [] InSeq(UpperLetters, c) -> 65 + (SeqIndex(UpperLetters, c) - 1)
      [] InSeq(LowerLetters, c) -> 97 + (SeqIndex(LowerLetters, c) - 1)
      [] c = " "                -> 32
      [] c = "@"                -> 64
      [] c = "_"                -> 95
      [] c = "e-acute"          -> 233

\* char::len_utf8
len_utf8(c) == IF char_code(c) < 128 THEN 1 ELSE 2

\* str::len: the length in bytes
RECURSIVE str_len(_)
str_len(str) == IF str = <<>> THEN 0 ELSE len_utf8(Head(str)) + str_len(Tail(str))

\* a variant that leaves the case of the character as it is
keep_case(c) == c

\* char::to_ascii_lowercase
to_ascii_lowercase(c) ==
    IF InSeq(UpperLetters, c) THEN LowerLetters[SeqIndex(UpperLetters, c)] ELSE c

\* Option<u32>::None of to_digit
NoDigit == 10

\* char::to_digit(10)
to_digit(c) == IF InSeq(Digits, c) THEN SeqIndex(Digits, c) - 1 ELSE NoDigit

\* parse_coordinate; None is NoSquare
\* parse_coordinate with rank digit r mapped to rank index r - 1
parse_coordinate_rank_up(coord) ==
    IF str_len(coord) # 2 THEN NoSquare
    ELSE IF Len(coord) < 2 THEN NoSquare
    ELSE LET file == to_ascii_lowercase(coord[1])
             rank == to_digit(coord[2])
         IN  IF rank = NoDigit THEN NoSquare
             ELSE IF ~(char_code("a") <= char_code(file) /\ char_code(file) <= char_code("h"))
                     \/ ~(1 <= rank /\ rank <= 8)
                  THEN NoSquare
             ELSE <<rank - 1, char_code(file) - char_code("a")>>

parse_coordinate(coord) ==
    IF str_len(coord) # 2 THEN NoSquare
    ELSE IF Len(coord) < 2 THEN NoSquare
    ELSE LET file == to_ascii_lowercase(coord[1])
             rank == to_digit(coord[2])
         IN  IF rank = NoDigit THEN NoSquare
             ELSE IF ~(char_code("a") <= char_code(file) /\ char_code(file) <= char_code("h"))
                     \/ ~(1 <= rank /\ rank <= 8)
                  THEN NoSquare
             ELSE <<8 - rank, char_code(file) - char_code("a")>>

\* format!("{}{}", coordinate_to_string(mv.0), coordinate_to_string(mv.1))
move_string(mv) == coordinate_to_string(mv[1]) \o coordinate_to_string(mv[2])

\* ------------------------------------------------------------------------
\* engine/rl.rs: the search tree
\* The tree is kept as a function from paths to nodes: the root is the node
\* at <<>>, the child a node at path p reached by move m is the node at
\* Append(p, m).  A node's children field lists the moves of its children
\* in the order they were pushed.
\* ------------------------------------------------------------------------
MAX_PLIES == 10

STATS_INTERVAL == 50

\* f32::INFINITY, in the thousandths uct_value is computed in
INFINITY == 1073741824

\* ln(n) in thousandths, n = 1..16
ln_milli == <<0, 693, 1099, 1386, 1609, 1792, 1946, 2079,
              2197, 2303, 2398, 2485, 2565, 2639, 2708, 2773>>

\* the integer part of the square root, by bisection on lo..hi
RECURSIVE isqrt_in(_, _, _)
isqrt_in(n, lo, hi) ==
    IF lo >= hi THEN lo
    ELSE LET mid == (lo + hi + 1) \div 2
         IN  IF mid * mid <= n THEN isqrt_in(n, mid, hi) ELSE isqrt_in(n, lo, mid - 1)

isqrt(n) == isqrt_in(n, 0, 4096)

\* MCTSNode::new
MCTSNode_new(board, current_player) ==
    [board            |-> board,
     visits           |-> 0,
     total_value      |-> 0,
     children         |-> <<>>,
     unexplored_moves |-> generate_ranked_moves(board, current_player),
     current_player   |-> current_player]

\* MCTSNode::uct_value in thousandths: total_value / visits plus
\* UCT_CONSTANT * sqrt(ln(parent_visits) / visits), UCT_CONSTANT = 1.414
\* (1.414^2 = 1.999396); total_value is in hundredths
uct_value(node, parent_visits) ==
    IF node.visits = 0 THEN INFINITY
    ELSE (node.total_value * 10) \div node.visits
         + isqrt((1999 * ln_milli[parent_visits]) \div node.visits)

\* Iterator::max_by / max_by_key: the index of the last element whose key
\* is not exceeded by any other
last_max(keys) ==
    CHOOSE i \in 1..Len(keys) :
        /\ \A j \in 1..Len(keys) : keys[j] <= keys[i]
        /\ \A j \in (i + 1)..Len(keys) : keys[j] < keys[i]

RECURSIVE sum_seq(_)
sum_seq(q) == IF q = <<>> THEN 0 ELSE Head(q) + sum_seq(Tail(q))

\* Vec::remove that leaves the element in place
remove_nothing(s, i) == s

remove_at(q, i) == SubSeq(q, 1, i - 1) \o SubSeq(q, i + 1, Len(q))

\* SimulationStats::default() (equal to SimulationStats::new()); the f32
\* best_move_confidence is kept as the fraction num / den
\* statistics as an earlier search may have left them
SimulationStats_stale ==
    [total_simulations    |-> 3,
     nodes_explored       |-> 5,
     best_line            |-> <<<<"a", "8", "b", "8">>>>,
     best_move_confidence |-> [num |-> 1, den |-> 2],
     current_eval         |-> 0,
     depth_reached        |-> 0,
     top_moves            |-> <<>>,
     thinking_line        |-> <<>>]

SimulationStats_default ==
    [total_simulations    |-> 0,
     nodes_explored       |-> 0,
     best_line            |-> <<>>,
     best_move_confidence |-> [num |-> 0, den |-> 1],
     current_eval         |-> 0,
     depth_reached        |-> 0,
     top_moves            |-> <<>>,
     thinking_line        |-> <<>>]

\* the keys of the children of the node at path p, in push order
child_visits(t, p) ==
    SubSeq([i \in 1..Len(t[p].children) |-> t[Append(p, t[p].children[i])].visits],
           1, Len(t[p].children))

child_ucts(t, p) ==
    SubSeq([i \in 1..Len(t[p].children) |->
               uct_value(t[Append(p, t[p].children[i])], t[p].visits)],
           1, Len(t[p].children))

\* a variant that ranks the root children by average value
best_child_by_value(t) ==
    last_max(SubSeq([i \in 1..Len(t[<<>>].children) |->
                        (t[<<t[<<>>].children[i]>>].total_value * 1000)
                            \div t[<<t[<<>>].children[i]>>].visits],
                    1, Len(t[<<>>].children)))

\* root.children.iter().max_by_key(|(_, child)| child.visits): the index of
\* the chosen root child
best_child(t) == last_max(child_visits(t, <<>>))

\* a variant that leaves the new child unvisited
expanded_child_unvisited(board, current_player, value) ==
    [MCTSNode_new(board, current_player) EXCEPT !.total_value = value]

\* the child mcts_iteration builds and, after the rollout, credits with its
\* first visit
expanded_child(board, current_player, value) ==
    [MCTSNode_new(board, current_player) EXCEPT !.visits = 1, !.total_value = value]

\* an unwinding that credits the ancestors without counting the visit
RECURSIVE unwind_uncounted(_, _, _)
unwind_uncounted(t, p, value) ==
    IF p = <<>> THEN [tree |-> t, value |-> value]
    ELSE LET q == SubSeq(p, 1, Len(p) - 1)
         IN  unwind_uncounted([t EXCEPT ![q].total_value = @ + (-value)], q, -value)

\* the unwinding of the recursion of mcts_iteration above the node at path
\* p, whose call returned value: each ancestor, from the parent up to the
\* root, takes the negation of what the call below it returned, adds it to
\* its total_value and counts one more visit
RECURSIVE unwind(_, _, _)
unwind(t, p, value) ==
    IF p = <<>> THEN [tree |-> t, value |-> value]
    ELSE LET q == SubSeq(p, 1, Len(p) - 1)
         IN  unwind([t EXCEPT ![q].visits = @ + 1, ![q].total_value = @ + (-value)],
                    q, -value)

\* top_moves: (move string, total_value / visits, visits) of every root
\* child, sorted by visits descending (stable), the first three kept
RECURSIVE top_entries(_, _)
top_entries(t, moves) ==
    IF moves = <<>> THEN <<>>
    ELSE << <<move_string(Head(moves)),
              [num |-> t[<<Head(moves)>>].total_value, den |-> t[<<Head(moves)>>].visits],
              t[<<Head(moves)>>].visits>> >>
         \o top_entries(t, Tail(moves))

top_moves_of(t) == truncate(sort_by_score(top_entries(t, t[<<>>].children)), 3)

\* ------------------------------------------------------------------------
\* Positions the specifications start from.  Each is a position the game
\* reaches from Board::new by calls of move_piece (which does not enforce
\* turns): no more material than the starting layout, no pawn behind its
\* starting rank.
\* ------------------------------------------------------------------------
RECURSIVE Place(_, _)
Place(sq, list) ==
    IF list = <<>> THEN sq
    ELSE Place([sq EXCEPT ![<<list[1][1], list[1][2]>>] = Piece(list[1][3], list[1][4])],
               Tail(list))

\* an open middle game: the black king stands on the diagonal of the bishop
\* on c4, the white f-pawn is pinned by the bishop on h4, the d-file is
\* swept by the queen on d8, the a2 pawn is blocked by its own knight, the
\* h7 pawn can only advance one step and the b7 pawn is one step from the edge
PosMiddle ==
    Place(EmptyBoard,
          << <<7, 4, "King", "White">>,   <<3, 7, "Rook", "White">>,
             <<4, 2, "Bishop", "White">>, <<5, 0, "Knight", "White">>,
             <<4, 4, "Pawn", "White">>,   <<6, 5, "Pawn", "White">>,
             <<6, 0, "Pawn", "White">>,   <<1, 1, "Pawn", "White">>,
             <<0, 6, "King", "Black">>,   <<0, 3, "Queen", "Black">>,
             <<4, 7, "Bishop", "Black">>, <<2, 5, "Knight", "Black">>,
             <<3, 5, "Pawn", "Black">>,   <<1, 7, "Pawn", "Black">>,
             <<1, 0, "Pawn", "Black">> >>)

BoardPositions == {NewBoard, PosMiddle}

\* the white rook on e2 is pinned to its king by the rook on e8
PosPin ==
    Place(EmptyBoard,
          << <<7, 4, "King", "White">>, <<6, 4, "Rook", "White">>,
             <<0, 0, "King", "Black">>, <<0, 4, "Rook", "Black">> >>)

\* the white king on e1 is attacked by the rook on e8: the bishop can block
\* on e2 or e6, the knight can capture the rook, the king can step aside
PosCheck ==
    Place(EmptyBoard,
          << <<7, 4, "King", "White">>, <<4, 2, "Bishop", "White">>,
             <<2, 5, "Knight", "White">>,
             <<0, 7, "King", "Black">>, <<0, 4, "Rook", "Black">> >>)

\* positions small enough to be played on from
SmallPositions == {PosPin, PosCheck}

\* Black to move has no move: the king on a8 is not attacked and a7, b7 and
\* b8 are covered by the queen on c7
PosStalemate ==
    Place(EmptyBoard,
          << <<0, 0, "King", "Black">>,
             <<1, 2, "Queen", "White">>, <<7, 7, "King", "White">> >>)

\* Black to move has two moves, Ka7 and Kb8: b7 is covered by the king on c6
PosKings ==
    Place(EmptyBoard,
          << <<0, 0, "King", "Black">>, <<2, 2, "King", "White">> >>)

\* Black, whose king has been captured, has one move: the pawn a2 to a1
PosLonePawn ==
    Place(EmptyBoard,
          << <<6, 0, "Pawn", "Black">>, <<0, 7, "King", "White">> >>)

\* the calls get_best_move(&board, color) the search is explored for
SearchRoots ==
    {[board |-> PosStalemate, color |-> "Black"],
     [board |-> PosKings, color |-> "Black"],
     [board |-> PosLonePawn, color |-> "Black"]}

\* ------------------------------------------------------------------------
\* State
\* ------------------------------------------------------------------------
VARIABLES
    squares,        \* Board.squares of the live board
    current_turn,   \* Board.current_turn (set by Board::new, never read)
    before,         \* Board.squares as they were when the last call began
    op,             \* the last move_piece call: its arguments and its result
    calls,          \* number of move_piece calls made so far
    ranked,         \* the Vec the last generate_ranked_moves call returned
    rcolor,         \* the colour that call was made for ("-": no call yet)
    plays_left,     \* accepted moves still to be played on the live board
    analyses,       \* the analyze_board calls made on the live board since the last
                    \* move: colour, board before, board after and BoardAnalysis
    evals,          \* per colour, what the last evaluate_position call on the
                    \* live board returned (NoEval: not called since the last move)
    tree,           \* the MCTS tree of the running get_best_move call, by path
    stats,          \* ChessRL.current_stats
    pc,             \* where get_best_move stands: "idle", "loop" (at the test
                    \* of the while), "iterate" (entering mcts_iteration on the
                    \* node at path), "simulate" (entering simulate), "done"
    path,           \* the node the running mcts_iteration call is at
    sim,            \* the node the running simulate call is at
    pending,        \* the expansion whose rollout is running: parent and move
    result,         \* what the last get_best_move call returned
    reported,       \* whether current_stats held a best line when the last
                    \* get_best_move call began
    coord,          \* the text handed to parse_coordinate
    coord_from,     \* the square coord was formatted from (NoSquare: typed text)
    parsed,         \* what parse_coordinate returned for coord (NotParsed: no call yet)
    command_buffer, \* App.command_buffer
    app_current_turn, \* App.current_turn
    move_history,   \* App.move_history
    message,        \* what the last handle_command call returned (NoMessage: no call yet)
    position_scores, \* App.last_position_score and App.current_position_score
    commands,       \* number of handle_command calls made
    entered         \* the command buffer and the board the last handle_command call
                    \* began with

boardVars == <<squares, current_turn, before, op, calls>>

rankVars == <<ranked, rcolor, plays_left>>

analysisVars == <<analyses>>

evalVars == <<evals>>

searchVars == <<tree, stats, pc, path, sim, pending, result, reported>>

coordVars == <<coord, coord_from, parsed>>

uiVars == <<command_buffer, app_current_turn, move_history, message, position_scores,
            commands, entered>>

nonSearchVars == <<boardVars, rankVars, analysisVars, evalVars, coordVars, uiVars>>

vars == <<squares, current_turn, before, op, calls, ranked, rcolor, plays_left, analyses,
          evals,
          tree, stats, pc, path, sim, pending, result, reported,
          coord, coord_from, parsed,
          command_buffer, app_current_turn, move_history, message, position_scores, commands,
          entered>>

NoEval == [score |-> 0, terms |-> <<>>]

NoEvals == [c \in Color |-> NoEval]

NoCall == [from |-> <<0, 0>>, to |-> <<0, 0>>, ret |-> FALSE]

\* Option::None of get_best_move
NoMove == <<NoSquare, NoSquare>>

NoSim == [board |-> EmptyBoard, current_player |-> "None", depth |-> 0, plies |-> 0]

NoPending == [parent |-> <<>>, move |-> NoMove]

\* no get_best_move call has been made
SearchIdle ==
    /\ tree = <<>>
    /\ stats = SimulationStats_default
    /\ pc = "idle"
    /\ path = <<>>
    /\ sim = NoSim
    /\ pending = NoPending
    /\ result = NoMove
    /\ reported = FALSE

\* parse_coordinate has not been called
NotParsed == <<9, 9>>

\* no text has been handed to parse_coordinate
CoordIdle ==
    /\ coord = <<>>
    /\ coord_from = NoSquare
    /\ parsed = NotParsed

NoMessage == "-"

\* App::new
UiIdle ==
    /\ command_buffer = <<>>
    /\ app_current_turn = "White"
    /\ move_history = <<>>
    /\ message = NoMessage
    /\ position_scores = [last |-> 0, current |-> 0]
    /\ commands = 0
    /\ entered = [command_buffer |-> <<>>, board |-> NewBoard]

\* ------------------------------------------------------------------------
\* Specification of the position model: calls of Board::move_piece
\* ------------------------------------------------------------------------
BoardInit ==
    /\ squares \in BoardPositions
    /\ current_turn = "White"
    /\ before = squares
    /\ op = NoCall
    /\ calls = 0
    /\ ranked = <<>> /\ rcolor = "-" /\ plays_left = 0
    /\ analyses = <<>>
    /\ evals = NoEvals
    /\ SearchIdle
    /\ CoordIdle
    /\ UiIdle

\* One call board.move_piece(from, to).  A further call is explored only
\* after an accepted move: a rejected call hands back the board it was given
\* (squares' below is whatever the call left), and every call on that board
\* is already explored from the state before it.
MovePiece(from, to) ==
    /\ calls < MaxCalls
    /\ calls = 0 \/ op.ret
    /\ LET r == move_piece(squares, from, to)
       IN  /\ squares' = r.squares
           /\ op' = [from |-> from, to |-> to, ret |-> r.ret]
    /\ before' = squares
    /\ calls' = calls + 1
    /\ UNCHANGED <<current_turn, rankVars, analysisVars, evalVars, searchVars, coordVars, uiVars>>

BoardNext == \E from \in Squares, to \in Squares : MovePiece(from, to)

BoardSpec == BoardInit /\ [][BoardNext]_vars

\* ------------------------------------------------------------------------
\* Specification of the move ranker: generate_ranked_moves applied to the
\* starting position, the middle game and every position that accepted
\* moves reach from the small positions
\* ------------------------------------------------------------------------
RankInit ==
    /\ \/ squares \in {NewBoard, PosMiddle} /\ plays_left = 0
       \/ squares \in SmallPositions /\ plays_left = MaxPlays
    /\ current_turn = "White"
    /\ before = squares
    /\ op = NoCall
    /\ calls = 0
    /\ ranked = <<>> /\ rcolor = "-"
    /\ analyses = <<>>
    /\ evals = NoEvals
    /\ SearchIdle
    /\ CoordIdle
    /\ UiIdle

\* an accepted board.move_piece(from, to) on the live board
Play(from, to) ==
    /\ plays_left > 0
    /\ move_piece(squares, from, to).ret
    /\ squares' = move_piece(squares, from, to).squares
    /\ before' = squares
    /\ op' = [from |-> from, to |-> to, ret |-> TRUE]
    /\ calls' = calls + 1
    /\ plays_left' = plays_left - 1
    /\ ranked' = <<>> /\ rcolor' = "-"
    /\ analyses' = <<>>
    /\ evals' = NoEvals
    /\ UNCHANGED <<current_turn, searchVars, coordVars, uiVars>>

\* one call generate_ranked_moves(&board, color)
GenerateRankedMoves(color) ==
    /\ rcolor = "-"
    /\ ranked' = generate_ranked_moves(squares, color)
    /\ rcolor' = color
    /\ UNCHANGED <<boardVars, plays_left, analysisVars, evalVars, searchVars, coordVars, uiVars>>

RankNext ==
    \/ \E from \in Squares, to \in Squares : Play(from, to)
    \/ \E color \in Color : GenerateRankedMoves(color)

RankSpec == RankInit /\ [][RankNext]_vars

\* ------------------------------------------------------------------------
\* Specification of the analysis: analyze_board called, for either colour
\* and up to MaxAnalyses times between moves, on the positions of the ranker
\* specification
\* ------------------------------------------------------------------------
AnalysisInit == RankInit

\* one call analyze_board(&board, color) on the live board
AnalyzeBoard(color) ==
    /\ Len(analyses) < MaxAnalyses
    /\ squares' = board_after_analysis(squares)
    /\ analyses' = Append(analyses, [color    |-> color,
                                     board    |-> squares,
                                     after    |-> squares',
                                     analysis |-> analyze_board(squares, color)])
    /\ UNCHANGED <<current_turn, before, op, calls, rankVars, evalVars, searchVars, coordVars,
                   uiVars>>

AnalysisNext ==
    \/ \E from \in Squares, to \in Squares : Play(from, to)
    \/ \E color \in Color : AnalyzeBoard(color)

AnalysisSpec == AnalysisInit /\ [][AnalysisNext]_vars

\* ------------------------------------------------------------------------
\* Specification of the evaluator: evaluate_position applied, for either
\* colour and every sampled noise, to the positions of the ranker
\* specification
\* ------------------------------------------------------------------------
EvalInit == RankInit

\* one call evaluate_position(&board, color); noise is what the rng returns
EvaluatePosition(color, noise) ==
    /\ evals[color] = NoEval
    /\ evals' = [evals EXCEPT ![color] = evaluate_position(squares, color, noise)]
    /\ UNCHANGED <<boardVars, rankVars, analysisVars, searchVars, coordVars, uiVars>>

EvalNext ==
    \/ \E from \in Squares, to \in Squares : Play(from, to)
    \/ \E color \in Color, noise \in NoiseValues : EvaluatePosition(color, noise)

EvalSpec == EvalInit /\ [][EvalNext]_vars

\* ------------------------------------------------------------------------
\* Specification of the coordinate functions: parse_coordinate applied to
\* every text of up to MaxCoordLen characters and to what
\* coordinate_to_string makes of every square
\* ------------------------------------------------------------------------
CoordChars ==
    {"a", "e", "h", "i", "A", "H", "I", "@", "_", "0", "1", "4", "8", "9", " ", "e-acute"}

\* the texts of n characters
RECURSIVE Texts(_)
Texts(n) ==
    IF n = 0 THEN {<<>>}
    ELSE {<<c>> \o t : c \in CoordChars, t \in Texts(n - 1)}

CoordInit ==
    /\ squares = NewBoard
    /\ current_turn = "White"
    /\ before = squares
    /\ op = NoCall
    /\ calls = 0
    /\ ranked = <<>> /\ rcolor = "-" /\ plays_left = 0
    /\ analyses = <<>>
    /\ evals = NoEvals
    /\ SearchIdle
    /\ \E n \in 0..MaxCoordLen : coord \in Texts(n)
    /\ coord_from = NoSquare
    /\ parsed = NotParsed
    /\ UiIdle

\* coordinate_to_string(pos), its result becoming the text to parse
CoordinateToString(pos) ==
    /\ coord = <<>>
    /\ parsed = NotParsed
    /\ coord' = coordinate_to_string(pos)
    /\ coord_from' = pos
    /\ UNCHANGED <<boardVars, rankVars, analysisVars, evalVars, searchVars, parsed, uiVars>>

\* parse_coordinate(coord)
ParseCoordinate ==
    /\ parsed = NotParsed
    /\ parsed' = parse_coordinate(coord)
    /\ UNCHANGED <<boardVars, rankVars, analysisVars, evalVars, searchVars, coord, coord_from,
                   uiVars>>

CoordNext ==
    \/ \E pos \in Squares : CoordinateToString(pos)
    \/ ParseCoordinate

CoordSpec == CoordInit /\ [][CoordNext]_vars

\* ------------------------------------------------------------------------
\* ui/app.rs: the command handler
\* ------------------------------------------------------------------------
is_whitespace(c) == c = " "

\* str::trim
RECURSIVE trim_start(_)
trim_start(s) ==
    IF s = <<>> THEN s
    ELSE IF is_whitespace(Head(s)) THEN trim_start(Tail(s))
    ELSE s

RECURSIVE trim_end(_)
trim_end(s) ==
    IF s = <<>> THEN s
    ELSE IF is_whitespace(s[Len(s)]) THEN trim_end(SubSeq(s, 1, Len(s) - 1))
    ELSE s

trim(s) == trim_end(trim_start(s))

\* str::to_lowercase, on the characters of char_code
RECURSIVE to_lowercase(_)
to_lowercase(s) ==
    IF s = <<>> THEN s
    ELSE <<to_ascii_lowercase(Head(s))>> \o to_lowercase(Tail(s))

\* str::split_whitespace: the maximal runs of non-whitespace characters
RECURSIVE split_from(_, _, _)
split_from(s, word, parts) ==
    IF s = <<>> THEN (IF word = <<>> THEN parts ELSE Append(parts, word))
    ELSE IF is_whitespace(Head(s))
         THEN split_from(Tail(s), <<>>, IF word = <<>> THEN parts ELSE Append(parts, word))
    ELSE split_from(Tail(s), Append(word, Head(s)), parts)

split_whitespace(s) == split_from(s, <<>>, <<>>)

\* Piece::to_char: the chess symbol of the piece, named by what it shows
to_char(piece) == <<piece.color, piece.piece_type>>

\* format!("{} {} -> {}", piece.to_char(), from, to)
move_str(piece, from, to) ==
    <<to_char(piece), " ">> \o coordinate_to_string(from) \o <<" ", "arrow", " ">>
        \o coordinate_to_string(to)

bot_color == "Black"

\* What get_best_move can hand to make_bot_move: the move of a child of
\* the root, which is one of the ranked moves of the position, or None
\* when the root got no child (the search itself is SearchSpec).
best_move_results(b, color) == {NoMove} \cup SeqSet(generate_ranked_moves(b, color))

\* App::make_bot_move with current_turn == bot_color, get_best_move having
\* returned best and evaluate_position having drawn noise
make_bot_move(app, best, noise) ==
    LET failed == [app EXCEPT !.bot_msg = "Bot failed to move"]
    IN  IF best = NoMove THEN failed
        ELSE IF is_none(get_piece(app.board, best[1])) THEN failed
        ELSE IF ~move_piece(app.board, best[1], best[2]).ret THEN failed
        ELSE LET board == move_piece(app.board, best[1], best[2]).squares
             IN  [board |-> board,
                  move_history |->
                      Append(app.move_history,
                             move_str(get_piece(app.board, best[1]), best[1], best[2])),
                  position_scores |->
                      [last |-> app.position_scores.current,
                       current |-> evaluate_position(board, bot_color, noise).score],
                  current_turn |-> "White",
                  bot_msg |-> "Bot moved successfully"]

\* ------------------------------------------------------------------------
\* Specification of the playing screen: keys typed into the command
\* buffer and App::handle_command on Enter
\* ------------------------------------------------------------------------
KeyChars == {"e", "E", "2", "4", " "}

UiInit ==
    /\ squares = NewBoard
    /\ current_turn = "White"
    /\ before = squares
    /\ op = NoCall
    /\ calls = 0
    /\ ranked = <<>> /\ rcolor = "-" /\ plays_left = 0
    /\ analyses = <<>>
    /\ evals = NoEvals
    /\ SearchIdle
    /\ CoordIdle
    /\ UiIdle

\* KeyCode::Char(c)
TypeChar(c) ==
    /\ commands < MaxCommands
    /\ Len(command_buffer) < MaxBufferLen
    /\ command_buffer' = Append(command_buffer, c)
    /\ UNCHANGED <<boardVars, rankVars, analysisVars, evalVars, searchVars, coordVars,
                   app_current_turn, move_history, message, position_scores, commands,
                   entered>>

\* KeyCode::Backspace
Backspace ==
    /\ commands < MaxCommands
    /\ command_buffer' =
           IF command_buffer = <<>> THEN <<>>
           ELSE SubSeq(command_buffer, 1, Len(command_buffer) - 1)
    /\ UNCHANGED <<boardVars, rankVars, analysisVars, evalVars, searchVars, coordVars,
                   app_current_turn, move_history, message, position_scores, commands,
                   entered>>

\* handle_command returning msg without having changed the game
Rejected(msg) ==
    /\ message' = msg
    /\ UNCHANGED <<squares, command_buffer, app_current_turn, move_history, position_scores>>

\* KeyCode::Enter: App::handle_command, make_bot_move included
HandleCommand ==
    /\ commands < MaxCommands
    /\ commands' = commands + 1
    /\ entered' = [command_buffer |-> command_buffer, board |-> squares]
    /\ LET cmd   == to_lowercase(trim(command_buffer))
           parts == split_whitespace(cmd)
       IN  IF Len(parts) # 2
           THEN Rejected("Invalid command. Use: <from> <to> (e.g. 'e2 e4')")
           ELSE LET from_pos == parse_coordinate(parts[1])
                    to_pos   == parse_coordinate(parts[2])
                IN  IF from_pos = NoSquare \/ to_pos = NoSquare
                    THEN Rejected("Invalid coordinate format. Use a1-h8")
                    ELSE IF is_none(get_piece(squares, from_pos))
                    THEN Rejected("No piece at selected position")
                    ELSE IF ~move_piece(squares, from_pos, to_pos).ret
                    THEN Rejected("Invalid move")
                    ELSE \E best \in best_move_results(
                                 move_piece(squares, from_pos, to_pos).squares, bot_color),
                            noise \in NoiseValues :
                           LET moved ==
                                   [board |-> move_piece(squares, from_pos, to_pos).squares,
                                    move_history |->
                                        Append(move_history,
                                               move_str(get_piece(squares, from_pos),
                                                        from_pos, to_pos)),
                                    position_scores |-> position_scores,
                                    current_turn |-> bot_color,
                                    bot_msg |-> "-"]
                               app == make_bot_move(moved, best, noise)
                           IN  /\ squares' = app.board
                               /\ move_history' =
                                      Append(app.move_history, <<"Bot: ", app.bot_msg>>)
                               /\ position_scores' = app.position_scores
                               /\ app_current_turn' = app.current_turn
                               /\ command_buffer' = <<>>
                               /\ message' = "Move successful"
    /\ UNCHANGED <<current_turn, before, op, calls, rankVars, analysisVars, evalVars,
                   searchVars, coordVars>>

UiNext ==
    \/ \E c \in KeyChars : TypeChar(c)
    \/ Backspace
    \/ HandleCommand

UiSpec == UiInit /\ [][UiNext]_vars

\* ------------------------------------------------------------------------
\* Specification of the search: get_best_move, one step per call of
\* mcts_iteration and of simulate
\* ------------------------------------------------------------------------
SearchInit ==
    /\ \E root \in SearchRoots : squares = root.board
    /\ current_turn = "White"
    /\ before = squares
    /\ op = NoCall
    /\ calls = 0
    /\ ranked = <<>> /\ rcolor = "-" /\ plays_left = 0
    /\ analyses = <<>>
    /\ evals = NoEvals
    /\ SearchIdle
    /\ CoordIdle
    /\ UiIdle

\* get_best_move up to its loop: the statistics are reset and the root is
\* built
GetBestMove(color) ==
    /\ pc \in {"idle", "done"}
    /\ [board |-> squares, color |-> color] \in SearchRoots
    /\ stats' = SimulationStats_default
    /\ tree' = (<<>> :> MCTSNode_new(squares, color))
    /\ pc' = "loop"
    /\ path' = <<>>
    /\ sim' = NoSim
    /\ pending' = NoPending
    /\ result' = NoMove
    /\ reported' = (stats.best_line # <<>>)
    /\ UNCHANGED <<nonSearchVars>>

\* the while test finds time left: the iteration is counted and
\* mcts_iteration is called on the root
BeginIteration ==
    /\ pc = "loop"
    /\ stats.total_simulations < MaxIterations
    /\ stats' = [stats EXCEPT !.total_simulations = @ + 1]
    /\ path' = <<>>
    /\ pc' = "iterate"
    /\ UNCHANGED <<nonSearchVars, reported, tree, sim, pending, result>>

\* a loop that refreshes the statistics after every iteration
after_iteration_every(st, t, eval) ==
    [st EXCEPT !.current_eval = eval, !.top_moves = top_moves_of(t)]

\* the rest of the loop body once mcts_iteration(&mut root) has returned
\* eval: every STATS_INTERVAL iterations current_eval and top_moves are set
after_iteration(st, t, eval) ==
    IF st.total_simulations % STATS_INTERVAL = 0
    THEN [st EXCEPT !.current_eval = eval, !.top_moves = top_moves_of(t)]
    ELSE st

\* mcts_iteration on a visited node with unexplored moves: one of them,
\* drawn by move_index, is removed and applied to a clone of the board; the
\* child is built and simulate is called on it.  When the move is refused
\* mcts_iteration is called again on the same node.
\* the expansion test with one unexplored move never expanded
expands_but_last(node) == node.visits > 0 /\ Len(node.unexplored_moves) > 1

\* node.visits > 0 && !node.unexplored_moves.is_empty()
expands(node) == node.visits > 0 /\ node.unexplored_moves # <<>>

Expand(move_index) ==
    /\ pc = "iterate"
    /\ expands(tree[path])
    /\ move_index \in 1..Len(tree[path].unexplored_moves)
    /\ LET node      == tree[path]
           next_move == node.unexplored_moves[move_index]
           r         == move_piece(node.board, next_move[1], next_move[2])
       IN  /\ tree' = [tree EXCEPT ![path].unexplored_moves = remove_at(@, move_index)]
           /\ IF r.ret
              THEN /\ pending' = [parent |-> path, move |-> next_move]
                   /\ sim' = [board          |-> r.squares,
                              current_player |-> opposite(node.current_player),
                              depth          |-> MAX_PLIES,
                              plies          |-> 0]
                   /\ pc' = "simulate"
              ELSE /\ UNCHANGED <<pending, sim>>
                   /\ pc' = "iterate"
    /\ stats' = [stats EXCEPT !.nodes_explored = @ + 1]
    /\ UNCHANGED <<nonSearchVars, reported, path, result>>

\* mcts_iteration on a node it does not expand and that has no child: the
\* node is evaluated for its player, and the calls above it return
EvaluateLeaf(noise) ==
    /\ pc = "iterate"
    /\ ~expands(tree[path])
    /\ tree[path].children = <<>>
    /\ LET node  == tree[path]
           value == evaluate_position(node.board, node.current_player, noise).score
           t1    == [tree EXCEPT ![path].visits = @ + 1, ![path].total_value = @ + value]
           u     == unwind(t1, path, value)
       IN  /\ tree' = u.tree
           /\ stats' = after_iteration([stats EXCEPT !.nodes_explored = @ + 1],
                                       u.tree, u.value)
    /\ pc' = "loop"
    /\ path' = <<>>
    /\ UNCHANGED <<nonSearchVars, reported, sim, pending, result>>

\* mcts_iteration on a node it does not expand and that has children: it
\* calls itself on the child of the greatest uct_value
Select ==
    /\ pc = "iterate"
    /\ ~expands(tree[path])
    /\ tree[path].children # <<>>
    /\ path' = Append(path, tree[path].children[last_max(child_ucts(tree, path))])
    /\ stats' = [stats EXCEPT !.nodes_explored = @ + 1]
    /\ UNCHANGED <<nonSearchVars, reported, tree, pc, sim, pending, result>>

\* the moves the simulate call at sim draws from
\* a ranker that offers the rollout nothing
simulate_moves_none == <<>>

simulate_moves == generate_ranked_moves(sim.board, sim.current_player)

\* the values of move_index that call may draw
simulate_draws(moves) ==
    {i \in 1..MaxRolloutChoices : i <= Len(moves) /\ i <= MAX_OPPONENT_MOVES}

\* the drawn move is refused by move_piece
refused(moves, move_index) ==
    ~move_piece(sim.board, moves[move_index][1], moves[move_index][2]).ret

\* what simulate returns to mcts_iteration when the innermost call returns
\* inner: each call above negates what the call below it returned
\* the rollout's score handed up without the negations
simulate_return_unsigned(inner) == inner

simulate_return(inner) == IF sim.plies % 2 = 0 THEN inner ELSE -inner

\* the expansion of mcts_iteration once simulate has returned ret: the
\* child gets one visit and value = -ret, it is pushed, the node is
\* credited, and the calls above return
finish_expansion(ret) ==
    LET value  == -ret
        parent == tree[pending.parent]
        r      == move_piece(parent.board, pending.move[1], pending.move[2])
        child  == expanded_child(r.squares, opposite(parent.current_player), value)
        t1     == (Append(pending.parent, pending.move) :> child) @@
                  [tree EXCEPT ![pending.parent].children = Append(@, pending.move),
                               ![pending.parent].visits = @ + 1,
                               ![pending.parent].total_value = @ + value]
    IN  unwind(t1, pending.parent, value)

\* simulate with depth left and moves to draw from: the move at move_index
\* is applied to a clone and simulate is called on the new node, one ply
\* deeper
SimulateStep(move_index) ==
    /\ pc = "simulate"
    /\ sim.depth > 0
    /\ LET moves == simulate_moves
       IN  /\ move_index \in simulate_draws(moves)
           /\ LET r == move_piece(sim.board, moves[move_index][1], moves[move_index][2])
              IN  /\ r.ret
                  /\ sim' = [board          |-> r.squares,
                             current_player |-> opposite(sim.current_player),
                             depth          |-> sim.depth - 1,
                             plies          |-> sim.plies + 1]
    /\ UNCHANGED <<nonSearchVars, reported, tree, stats, pc, path, pending,
                   result>>

\* simulate with no depth left, with no move to draw from or with a drawn
\* move that is refused: the position is evaluated for the player to move,
\* the simulate calls return, and mcts_iteration finishes the expansion
SimulateEnd(noise) ==
    /\ pc = "simulate"
    /\ \/ sim.depth <= 0
       \/ LET moves == simulate_moves
          IN  moves = <<>> \/ \E i \in simulate_draws(moves) : refused(moves, i)
    /\ LET inner == evaluate_position(sim.board, sim.current_player, noise).score
           u     == finish_expansion(simulate_return(inner))
       IN  /\ tree' = u.tree
           /\ stats' = after_iteration(stats, u.tree, u.value)
    /\ pc' = "loop"
    /\ path' = <<>>
    /\ sim' = NoSim
    /\ pending' = NoPending
    /\ UNCHANGED <<nonSearchVars, reported, result>>

\* the while test finds the five seconds used up: the root child of the
\* most visits gives the move, the confidence and the best line.  The
\* first test follows Instant::now() directly and finds time left.
Timeout ==
    /\ pc = "loop"
    /\ stats.total_simulations >= 1
    /\ LET root == tree[<<>>]
       IN  IF root.children # <<>>
           THEN LET visits       == child_visits(tree, <<>>)
                    best         == best_child(tree)
                    best_move    == root.children[best]
                    total_visits == sum_seq(visits)
                IN  /\ stats' = [stats EXCEPT
                                   !.best_move_confidence =
                                       [num |-> visits[best], den |-> total_visits],
                                   !.best_line = <<move_string(best_move)>>]
                    /\ result' = best_move
           ELSE /\ result' = NoMove
                /\ UNCHANGED stats
    /\ pc' = "done"
    /\ UNCHANGED <<nonSearchVars, reported, tree, path, sim, pending>>

SearchNext ==
    \/ \E color \in Color : GetBestMove(color)
    \/ BeginIteration
    \/ \E move_index \in 1..64 : Expand(move_index)
    \/ \E noise \in NoiseValues : EvaluateLeaf(noise)
    \/ Select
    \/ \E move_index \in 1..MaxRolloutChoices : SimulateStep(move_index)
    \/ \E noise \in NoiseValues : SimulateEnd(noise)
    \/ Timeout

SearchSpec == SearchInit /\ [][SearchNext]_vars

\* ------------------------------------------------------------------------
\* Specification of the statistics refresh: the body of the while loop of
\* get_best_move around the call of mcts_iteration, applied to roots with up
\* to MaxChildren children from the iteration before the first refresh on.
\* mcts_iteration is reduced to the value it returns and to what it does to
\* the root (one more visit, the value added to total_value).
\* ------------------------------------------------------------------------
\* the black king on d5 has eight moves; the white king stands on h1
PosOpenKing ==
    Place(EmptyBoard,
          << <<3, 3, "King", "Black">>, <<7, 7, "King", "White">> >>)

\* the iteration count the loop is entered with
StatsStart == STATS_INTERVAL - 2

\* total_value of the i-th root child, in hundredths
StatsTotals == <<50, -30, 10, 0, 20, -10>>

\* the values mcts_iteration returns, in hundredths
StatsEvals == {-35, 40}

\* the nodes of the first n root children, the i-th with v[i] visits
RECURSIVE stats_children(_, _, _)
stats_children(kids, v, n) ==
    IF n = 0 THEN <<>>
    ELSE stats_children(kids, v, n - 1)
         \o << [expanded_child(move_piece(PosOpenKing, kids[n][1], kids[n][2]).squares,
                               "White", StatsTotals[n])
                   EXCEPT !.visits = v[n]] >>

RECURSIVE stats_tree_of(_, _, _)
stats_tree_of(root, nodes, n) ==
    IF n = 0 THEN (<<>> :> root)
    ELSE (<<root.children[n]>> :> nodes[n]) @@ stats_tree_of(root, nodes, n - 1)

\* the tree of a root whose first n ranked moves have been expanded
stats_tree(n, v) ==
    then_apply(MCTSNode_new(PosOpenKing, "Black"),
               LAMBDA root0 :
                   then_apply(stats_children(root0.unexplored_moves, v, n),
                              LAMBDA nodes :
                                  stats_tree_of(
                                      [root0 EXCEPT
                                          !.visits = StatsStart,
                                          !.children = SubSeq(root0.unexplored_moves, 1, n),
                                          !.unexplored_moves =
                                              SubSeq(root0.unexplored_moves, n + 1,
                                                     Len(root0.unexplored_moves))],
                                      nodes, n)))

StatsInit ==
    /\ squares = PosOpenKing
    /\ current_turn = "White"
    /\ before = squares
    /\ op = NoCall
    /\ calls = 0
    /\ ranked = <<>> /\ rcolor = "-" /\ plays_left = 0
    /\ analyses = <<>>
    /\ evals = NoEvals
    /\ \E n \in 0..MaxChildren : \E v \in [1..n -> 1..MaxVisits] :
           tree = stats_tree(n, v)
    /\ stats = [SimulationStats_default EXCEPT !.total_simulations = StatsStart]
    /\ pc = "loop"
    /\ path = <<>>
    /\ sim = NoSim
    /\ pending = NoPending
    /\ result = NoMove
    /\ reported = FALSE
    /\ CoordIdle
    /\ UiIdle

\* one pass of the loop body: the iteration is counted, mcts_iteration
\* returns eval, and the statistics are refreshed when they are due
LoopBody(eval) ==
    /\ pc = "loop"
    /\ stats.total_simulations < MaxStatsIterations
    /\ tree' = [tree EXCEPT ![<<>>].visits = @ + 1, ![<<>>].total_value = @ + eval]
    /\ stats' = after_iteration([stats EXCEPT !.total_simulations = @ + 1], tree', eval)
    /\ UNCHANGED <<nonSearchVars, reported, pc, path, sim, pending, result>>

StatsNext == \E eval \in StatsEvals : LoopBody(eval)

StatsSpec == StatsInit /\ [][StatsNext]_vars

\* ------------------------------------------------------------------------
\* The movement rules as the specification words them, written over sets of
\* squares instead of the validator's loops.  Used only to state the claims.
\* ------------------------------------------------------------------------
Forward(c) == IF c = "White" THEN -1 ELSE 1

StartRank(c) == IF c = "White" THEN 6 ELSE 1

Dist(a, b) == IF abs(b[1] - a[1]) > abs(b[2] - a[2])
              THEN abs(b[1] - a[1]) ELSE abs(b[2] - a[2])

SameLine(a, b) == a[1] = b[1] \/ a[2] = b[2]

SameDiagonal(a, b) == abs(b[1] - a[1]) = abs(b[2] - a[2])

\* the squares strictly between two squares of one line or diagonal
Between(a, b) ==
    {s \in Squares :
        /\ s # a /\ s # b
        /\ Dist(a, s) + Dist(s, b) = Dist(a, b)
        /\ \/ (a[1] = b[1] /\ s[1] = a[1])
           \/ (a[2] = b[2] /\ s[2] = a[2])
           \/ (SameDiagonal(a, b) /\ SameDiagonal(a, s) /\ SameDiagonal(s, b))}

AllEmpty(b, S) == \A s \in S : b[s] = None

PawnStep(b, from, to) ==
    /\ to = <<from[1] + Forward(b[from].color), from[2]>>
    /\ b[to] = None

PawnDoubleStep(b, from, to) ==
    /\ from[1] = StartRank(b[from].color)
    /\ to = <<from[1] + 2 * Forward(b[from].color), from[2]>>
    /\ b[<<from[1] + Forward(b[from].color), from[2]>>] = None
    /\ b[to] = None

PawnCapture(b, from, to) ==
    /\ to[1] = from[1] + Forward(b[from].color)
    /\ abs(to[2] - from[2]) = 1
    /\ b[to] # None
    /\ b[to].color = opposite(b[from].color)

PawnRule(b, from, to) ==
    PawnStep(b, from, to) \/ PawnDoubleStep(b, from, to) \/ PawnCapture(b, from, to)

RookRule(b, from, to) == SameLine(from, to) /\ AllEmpty(b, Between(from, to))

BishopRule(b, from, to) == SameDiagonal(from, to) /\ AllEmpty(b, Between(from, to))

KnightRule(from, to) ==
    {abs(to[1] - from[1]), abs(to[2] - from[2])} = {1, 2}

KingRule(from, to) == abs(to[1] - from[1]) <= 1 /\ abs(to[2] - from[2]) <= 1

PieceRule(b, from, to) ==
    CASE b[from].piece_type = "Pawn"   -> PawnRule(b, from, to)
      [] b[from].piece_type = "Rook"   -> RookRule(b, from, to)
      [] b[from].piece_type = "Bishop" -> BishopRule(b, from, to)
      [] b[from].piece_type = "Queen"  -> RookRule(b, from, to) \/ BishopRule(b, from, to)
      [] b[from].piece_type = "Knight" -> KnightRule(from, to)
      [] b[from].piece_type = "King"   -> KingRule(from, to)
      [] OTHER                         -> FALSE

SameColourTarget(b, from, to) ==
    b[from] # None /\ b[to] # None /\ b[to].color = b[from].color

\* a move that obeys geometry and occupancy, whatever it does to the kings
PseudoLegal(b, from, to) ==
    /\ from # to
    /\ b[from] # None
    /\ ~SameColourTarget(b, from, to)
    /\ PieceRule(b, from, to)

PieceCount(b) == Cardinality({s \in Squares : b[s] # None})

KingSquares(b, c) == {s \in Squares : b[s] = Piece("King", c)}

\* some piece of colour c could capture on square k
CapturableBy(b, c, k) ==
    \E s \in Squares : b[s] # None /\ b[s].color = c /\ PseudoLegal(b, s, k)

KingCapturable(b, c) == \E k \in KingSquares(b, c) : CapturableBy(b, opposite(c), k)

Called == calls > 0

\* C1: a call with from = to, an empty from square, a destination of the
\* mover's own colour or a move the piece's rule rejects returns false, and
\* whenever false is returned all 64 squares are as they were before the call.
C1_RejectedMoveLeavesPosition ==
    Called =>
        /\ (\/ op.from = op.to
            \/ before[op.from] = None
            \/ SameColourTarget(before, op.from, op.to)
            \/ ~PieceRule(before, op.from, op.to)) => ~op.ret
        /\ ~op.ret => squares = before

\* a move of an occupied square to a square not of the mover's colour was
\* rejected by the piece rule alone
C1_Witness ==
    /\ Called /\ ~op.ret /\ op.from # op.to
    /\ before[op.from] # None
    /\ ~SameColourTarget(before, op.from, op.to)
    /\ squares = before

\* C2: after an accepted move the from square is empty, the to square holds
\* the piece that stood on from, every other square is unchanged, and the
\* piece count dropped by one exactly if to was occupied.
C2_AcceptedMoveRelocates ==
    (Called /\ op.ret) =>
        /\ squares[op.from] = None
        /\ squares[op.to] = before[op.from]
        /\ before[op.from] # None
        /\ \A s \in Squares \ {op.from, op.to} : squares[s] = before[s]
        /\ PieceCount(squares) =
              PieceCount(before) - (IF before[op.to] # None THEN 1 ELSE 0)

\* an accepted capture
C2_Witness == Called /\ op.ret /\ before[op.to] # None

\* C3: a pawn move is accepted exactly when it is a single step forward onto
\* an empty square, a double step from the start rank over two empty
\* squares, or a forward diagonal step onto an enemy piece.
C3_PawnRule ==
    (Called /\ before[op.from].piece_type = "Pawn") =>
        (op.ret <=> (\/ PawnStep(before, op.from, op.to)
                     \/ PawnDoubleStep(before, op.from, op.to)
                     \/ PawnCapture(before, op.from, op.to)))

\* a double step from the start rank was rejected because the square in
\* between is occupied
C3_Witness ==
    /\ Called /\ ~op.ret
    /\ before[op.from].piece_type = "Pawn"
    /\ op.from[1] = StartRank(before[op.from].color)
    /\ op.to = <<op.from[1] + 2 * Forward(before[op.from].color), op.from[2]>>
    /\ before[op.to] = None
    /\ before[<<op.from[1] + Forward(before[op.from].color), op.from[2]>>] # None

\* C4: a non-pawn move to another square that holds no piece of the mover's
\* colour is accepted exactly when the rule of the piece holds.
C4_PieceRules ==
    (/\ Called
     /\ before[op.from] # None
     /\ before[op.from].piece_type # "Pawn"
     /\ op.from # op.to
     /\ ~SameColourTarget(before, op.from, op.to)) =>
        (op.ret <=>
            CASE before[op.from].piece_type = "Rook" ->
                    SameLine(op.from, op.to) /\ AllEmpty(before, Between(op.from, op.to))
              [] before[op.from].piece_type = "Bishop" ->
                    SameDiagonal(op.from, op.to) /\ AllEmpty(before, Between(op.from, op.to))
              [] before[op.from].piece_type = "Queen" ->
                    RookRule(before, op.from, op.to) \/ BishopRule(before, op.from, op.to)
              [] before[op.from].piece_type = "Knight" -> KnightRule(op.from, op.to)
              [] before[op.from].piece_type = "King" -> KingRule(op.from, op.to))

\* a rook, bishop or queen move along a line was rejected because a square
\* in between is occupied
C4_Witness ==
    /\ Called /\ ~op.ret
    /\ before[op.from].piece_type \in {"Rook", "Bishop", "Queen"}
    /\ ~SameColourTarget(before, op.from, op.to)
    /\ SameLine(op.from, op.to) \/ SameDiagonal(op.from, op.to)
    /\ ~AllEmpty(before, Between(op.from, op.to))

\* C5: every move that obeys geometry and occupancy is accepted and applied,
\* whoever's turn it is and whether or not it leaves the mover's king where
\* an enemy piece can capture it.
C5_NoCheckFiltering ==
    (Called /\ PseudoLegal(before, op.from, op.to)) =>
        /\ op.ret
        /\ squares = [before EXCEPT ![op.from] = None, ![op.to] = before[op.from]]

\* a black move made while current_turn is White was accepted although the
\* black king can be captured in the resulting position
C5_Witness ==
    /\ Called /\ op.ret
    /\ before[op.from].color = "Black"
    /\ current_turn = "White"
    /\ KingCapturable(squares, "Black")

\* ------------------------------------------------------------------------
\* Claims about the move ranker
\* ------------------------------------------------------------------------
Relocated(b, from, to) == [b EXCEPT ![from] = None, ![to] = b[from]]

\* the moves of colour c that obey geometry and occupancy and after which
\* no enemy piece can move onto the square of c's king
PseudoLegalMoves(b, c) ==
    {m \in {s \in Squares : b[s] # None /\ b[s].color = c} \X Squares :
        PseudoLegal(b, m[1], m[2])}

LegalMoves(b, c) ==
    {m \in PseudoLegalMoves(b, c) : ~KingCapturable(Relocated(b, m[1], m[2]), c)}


Ranked == rcolor # "-"

\* C6: when at most 150 moves survive, generate_ranked_moves returns exactly
\* the moves of the colour that move_piece accepts and that leave no enemy
\* piece able to move onto the mover's king.
C6_RankerReturnsLegalMoves ==
    Ranked =>
        LET legal == LegalMoves(squares, rcolor)
        IN  Cardinality(legal) <= MAX_OPPONENT_MOVES => SeqSet(ranked) = legal

\* the ranked colour's king is attacked, some move is returned and some
\* move that obeys geometry is withheld
C6_Witness ==
    /\ Ranked
    /\ KingCapturable(squares, rcolor)
    /\ ranked # <<>>
    /\ PseudoLegalMoves(squares, rcolor) \ SeqSet(ranked) # {}

\* a pinned piece: the king is not attacked, yet moves of a piece that
\* would uncover it are withheld
C6_WitnessPin ==
    /\ Ranked
    /\ ~KingCapturable(squares, rcolor)
    /\ \E m \in PseudoLegalMoves(squares, rcolor) \ SeqSet(ranked) :
           squares[m[1]].piece_type # "King"

\* ------------------------------------------------------------------------
\* Claims about the evaluator
\* ------------------------------------------------------------------------
Mirror(s) == <<7 - s[1], s[2]>>

\* both colours have the same material on mirrored squares
MirrorSymmetric(b) ==
    \A s \in Squares :
        IF b[s] = None THEN b[Mirror(s)] = None
        ELSE b[Mirror(s)] = Piece(b[s].piece_type, opposite(b[s].color))

BothEvaluated == evals["White"] # NoEval /\ evals["Black"] # NoEval

\* material + 0.1 * mobility + 1.5 * center control, in hundredths
Deterministic(e) == e.terms.material + e.terms.mobility + e.terms.center

\* C10: on a position of identical material and mirrored structure the
\* material + mobility + center component computed for White is the negation
\* of the one computed for Black.
C10_SignConvention ==
    (BothEvaluated /\ MirrorSymmetric(squares)) =>
        Deterministic(evals["White"]) = -Deterministic(evals["Black"])


\* ------------------------------------------------------------------------
\* Claims about the search
\* ------------------------------------------------------------------------
Returned == pc = "done"

Root == tree[<<>>]

\* what generate_ranked_moves offers for the root position and colour
RootMoves == generate_ranked_moves(Root.board, Root.current_player)

RootChild(i) == tree[<<Root.children[i]>>]

\* C7: get_best_move returns no move if and only if generate_ranked_moves
\* offers no move for the root position and colour, however many iterations
\* completed within the time budget.
C7_NoneIffNoMoves ==
    Returned => (result = NoMove <=> RootMoves = <<>>)

\* C8: a returned move is the move of a root child whose visit count is
\* greater than or equal to that of every other root child, and it is one
\* of the moves the ranker offered for the root position.
C8_RobustChild ==
    (Returned /\ result # NoMove) =>
        /\ \E i \in 1..Len(Root.children) :
               /\ Root.children[i] = result
               /\ \A j \in 1..Len(Root.children) : RootChild(j).visits <= RootChild(i).visits
        /\ result \in SeqSet(RootMoves)

\* a move is returned although another root child, visited less often, has
\* the higher average value
C8_Witness ==
    /\ Returned /\ result # NoMove
    /\ \E j \in 1..Len(Root.children) :
           /\ RootChild(j).visits < tree[<<result>>].visits
           /\ RootChild(j).total_value * tree[<<result>>].visits
                  > tree[<<result>>].total_value * RootChild(j).visits

\* C9: after every get_best_move call best_move_confidence lies in [0, 1];
\* when a move was returned it is the visits of the chosen root child
\* divided by the sum of the visits of all root children, and that sum is
\* not zero.
C9_Confidence ==
    Returned =>
        /\ stats.best_move_confidence.den > 0
        /\ 0 <= stats.best_move_confidence.num
        /\ stats.best_move_confidence.num <= stats.best_move_confidence.den
        /\ result # NoMove =>
               /\ stats.best_move_confidence.num = tree[<<result>>].visits
               /\ stats.best_move_confidence.den = sum_seq(child_visits(tree, <<>>))
               /\ sum_seq(child_visits(tree, <<>>)) # 0

\* a move is returned with a confidence strictly between 0 and 1
C9_Witness ==
    /\ Returned /\ result # NoMove
    /\ 0 < stats.best_move_confidence.num
    /\ stats.best_move_confidence.num < stats.best_move_confidence.den

\* ------------------------------------------------------------------------
\* Claims about the evaluator and the analysis
\* ------------------------------------------------------------------------
Evaluated(c) == evals[c] # NoEval

\* the lengths of the mobility lists of an analysis
MobilityLengths(a) ==
    SubSeq([i \in 1..Len(a.piece_mobility) |-> Len(a.piece_mobility[i][2])],
           1, Len(a.piece_mobility))

\* material + 3.0 * kingSafety - 2.5 * kingSafety(opponent) + 0.1 * mobility
\* - 2.0 * threats + 1.5 * centerControl, in hundredths
PreNoise(b, c) ==
    LET own == analyze_board(b, c)
        opp == analyze_board(b, opposite(c))
    IN  100 * own.material_balance + 300 * own.king_safety - 250 * opp.king_safety
        + 10 * sum_seq(MobilityLengths(own)) - 200 * Len(own.threats)
        + 150 * own.center_control

\* C11 as corrected: before the noise is added the score is the weighted sum
\* of the analysis terms, and the noise changes it by at most 0.2 in
\* absolute value: it lies in [-0.2, 0.2), the lower end included.
C11_ScoreFormula ==
    \A c \in Color :
        Evaluated(c) =>
            /\ evals[c].score - evals[c].terms.noise = PreNoise(squares, c)
            /\ -20 <= evals[c].score - PreNoise(squares, c)
            /\ evals[c].score - PreNoise(squares, c) < 20

\* C11 as stated: before the noise is added the score is the weighted sum
\* of the analysis terms, and the noise changes it by less than 0.2 in
\* absolute value.
C11_NoiseBelowFifth ==
    \A c \in Color :
        Evaluated(c) =>
            /\ evals[c].score - evals[c].terms.noise = PreNoise(squares, c)
            /\ abs(evals[c].score - PreNoise(squares, c)) < 20

\* a position with a threat on the evaluated colour and unequal king
\* safeties is evaluated with the lowest noise
C11_Witness ==
    \E c \in Color :
        /\ Evaluated(c)
        /\ evals[c].terms.threats < 0
        /\ evals[c].terms.king_safety * 250 # -evals[c].terms.opp_safety * 300
        /\ evals[c].score - PreNoise(squares, c) = -20

Parsed == parsed # NotParsed

\* a two-character token: a file letter a-h in either case, then a digit 1-8
WellFormed(text) ==
    /\ Len(text) = 2
    /\ text[1] \in {"a", "b", "c", "d", "e", "f", "g", "h",
                    "A", "B", "C", "D", "E", "F", "G", "H"}
    /\ text[2] \in {"1", "2", "3", "4", "5", "6", "7", "8"}

\* file letter to file index 0..7, rank digit r to rank index 8 - r
SquareOf(text) ==
    CHOOSE sq \in Squares :
        /\ text[1] \in {FileLetters[sq[2] + 1], UpperLetters[sq[2] + 1]}
        /\ text[2] = Digits[(8 - sq[1]) + 1]

\* C13: parse_coordinate returns a square exactly for the two-character
\* tokens made of a file letter a-h in either case and a digit 1-8, the
\* square with that file index and rank index 8 - digit, and None for every
\* other text; parse_coordinate(coordinate_to_string(sq)) = sq for every
\* square.
C13_ParseCoordinate ==
    Parsed =>
        /\ parsed # NoSquare <=> WellFormed(coord)
        /\ WellFormed(coord) => parsed = SquareOf(coord)
        /\ coord_from # NoSquare => parsed = coord_from

\* the text coordinate_to_string made of h1 has been parsed back to h1
C13_Witness ==
    /\ coord_from = <<7, 7>>
    /\ coord = <<"h", "1">>
    /\ parsed = <<7, 7>>

\* an upper-case token has been parsed to its square
C13_WitnessUpper ==
    /\ coord = <<"A", "8">>
    /\ parsed = <<0, 0>>

\* the starting layout with the pawn of e2 on e4
AfterE2E4 ==
    [s \in Squares |->
        IF s = <<6, 4>> THEN None
        ELSE IF s = <<4, 4>> THEN [piece_type |-> "Pawn", color |-> "White"]
        ELSE NewBoard[s]]

EnteredE2E4 == entered = [command_buffer |-> <<"e", "2", " ", "e", "4">>, board |-> NewBoard]

\* the squares adjacent to e1 that no white piece occupies, in scan order
FreeAroundE1(b) ==
    SelectSeq(SquareSeq,
              LAMBDA s : /\ s # <<7, 4>>
                         /\ s[1] \in {6, 7} /\ s[2] \in {3, 4, 5}
                         /\ ~(is_some(b[s]) /\ b[s].color = "White"))

KingMobilityE2(b) ==
    /\ b[<<7, 4>>] = [piece_type |-> "King", color |-> "White"]
    /\ get_piece_moves(b, <<7, 4>>) = FreeAroundE1(b)
    /\ get_piece_moves(b, <<7, 4>>) = << <<6, 4>> >>

\* the squares on which b differs from the layout after e2-e4
ChangedByReply(b) == {s \in Squares : b[s] # AfterE2E4[s]}

C15_StatsReset ==
    /\ pc \in {"loop", "done"} => stats.total_simulations = Root.visits
    /\ pc \in {"loop", "iterate", "simulate"} =>
           /\ stats.best_line = <<>>
           /\ stats.best_move_confidence.num = 0
    /\ (pc = "loop" /\ Root.visits = 0) => stats = SimulationStats_default
    /\ (pc = "done" /\ result = NoMove) =>
           /\ stats.best_move_confidence.num = 0
           /\ stats.best_line = <<>>
           /\ stats.top_moves = <<>>
           \* also had this iteration been one that refreshes the top moves
           /\ after_iteration([stats EXCEPT !.total_simulations = STATS_INTERVAL],
                              tree, 0).top_moves = <<>>

\* a call that began with statistics holding a best line has returned no move
C15_Witness ==
    /\ reported
    /\ pc = "done"
    /\ result = NoMove
    /\ stats.total_simulations = 1
    /\ stats.best_line = <<>>

\* the number of pieces of the type and colour on the board
Count(b, t, c) == Cardinality({s \in Squares : b[s] = Piece(t, c)})

\* Pawn 100, Knight 320, Bishop 330, Rook 500, Queen 900, King 20000 summed
\* over the pieces of the colour
MaterialOf(b, c) ==
    100 * Count(b, "Pawn", c) + 320 * Count(b, "Knight", c) + 330 * Count(b, "Bishop", c)
        + 500 * Count(b, "Rook", c) + 900 * Count(b, "Queen", c) + 20000 * Count(b, "King", c)

Opponent(c) == IF c = "White" THEN "Black" ELSE "White"

\* C16: get_material_balance, and the material_balance field analyze_board
\* fills, equal the summed values of the colour's pieces minus those of the
\* opponent's pieces; the balance for White is the negation of the balance
\* for Black.
C16_MaterialBalance ==
    /\ \A c \in Color :
           get_material_balance(squares, c)
               = MaterialOf(squares, c) - MaterialOf(squares, Opponent(c))
    /\ get_material_balance(squares, "White") = -get_material_balance(squares, "Black")
    /\ \A i \in 1..Len(analyses) :
           LET a == analyses[i]
           IN  /\ a.analysis.material_balance
                      = MaterialOf(a.board, a.color) - MaterialOf(a.board, Opponent(a.color))
               /\ a.analysis.material_balance = get_material_balance(a.board, a.color)
    /\ \A i, j \in 1..Len(analyses) :
           (analyses[i].board = analyses[j].board /\ analyses[i].color # analyses[j].color)
               => analyses[i].analysis.material_balance
                      = -analyses[j].analysis.material_balance

\* a position in which White has the more material has been analysed for
\* both colours
C16_Witness ==
    /\ Len(analyses) = 2
    /\ analyses[1].color = "White" /\ analyses[2].color = "Black"
    /\ analyses[1].board = analyses[2].board
    /\ analyses[1].analysis.material_balance > 0
    /\ analyses[2].analysis.material_balance = -analyses[1].analysis.material_balance

\* a step that ends the rollout of an expansion and attaches the new child
ExpansionEnds == pc = "simulate" /\ pc' = "loop"

\* the path of the child the running expansion attaches
NewChild == Append(pending.parent, pending.move)

\* the ancestor k levels above the node at path c
Ancestor(c, k) == SubSeq(c, 1, Len(c) - k)

Sign(k) == IF k % 2 = 0 THEN 1 ELSE -1

\* C17: in an iteration that attaches a new child c holding the rollout
\* value v (visits 1, value v), every node from the root to c's parent gets
\* one more visit, and the ancestor k levels above c gets (-1)^k * v added
\* to its cumulative value.
C17_NegatedPerLevel ==
    [][ExpansionEnds =>
           LET c == NewChild
               v == tree'[c].total_value
           IN  /\ tree'[c].visits = 1
               /\ \A k \in 1..Len(c) :
                      /\ tree'[Ancestor(c, k)].visits = tree[Ancestor(c, k)].visits + 1
                      /\ tree'[Ancestor(c, k)].total_value
                             = tree[Ancestor(c, k)].total_value + Sign(k) * v]_vars

BetweenIterations == pc \in {"loop", "done"}

\* C18: between iterations, at every node of the tree the unexplored moves
\* and the moves of the children are disjoint, no move occurs twice, and
\* together they are the moves the ranker returns for the node's position
\* and side to move.
C18_QueueAndChildren ==
    BetweenIterations =>
        \A p \in DOMAIN tree :
            LET node == tree[p]
                queue == SeqSet(node.unexplored_moves)
                grown == SeqSet(node.children)
            IN  /\ queue \cap grown = {}
                /\ Cardinality(queue) = Len(node.unexplored_moves)
                /\ Cardinality(grown) = Len(node.children)
                /\ queue \cup grown
                       = SeqSet(generate_ranked_moves(node.board, node.current_player))
                /\ \A m \in grown : Append(p, m) \in DOMAIN tree

\* a node below the root has both a child and moves left in its queue
C18_Witness ==
    /\ BetweenIterations
    /\ \E p \in DOMAIN tree :
           /\ Len(p) = 1
           /\ tree[p].children # <<>>
           /\ tree[p].unexplored_moves # <<>>

\* mcts_iteration is at the node at path and takes its selection branch
Selecting ==
    /\ pc = "iterate"
    /\ ~(tree[path].visits > 0 /\ tree[path].unexplored_moves # <<>>)
    /\ tree[path].children # <<>>

\* C19: every node in some node's children list has at least one visit, so
\* no child's uct_value is the infinite score when a selection is made.
C19_ChildrenVisited ==
    /\ \A p \in DOMAIN tree :
           \A i \in 1..Len(tree[p].children) :
               tree[Append(p, tree[p].children[i])].visits >= 1
    /\ Selecting =>
           \A i \in 1..Len(tree[path].children) :
               /\ child_ucts(tree, path)[i] # INFINITY
               /\ child_ucts(tree, path)[i] < INFINITY

\* a selection is being made among several children of the root
C19_Witness ==
    /\ Selecting
    /\ path = <<>>
    /\ Len(tree[path].children) >= 2
    /\ \E i \in 1..Len(tree[path].children) :
           tree[Append(path, tree[path].children[i])].visits = 1

\* mcts_iteration is at a node that still has unexplored moves
AtUnexplored == pc = "iterate" /\ tree[path].unexplored_moves # <<>>

\* C20: in every iteration, the first one of a search included, when the
\* node reached by selection still has unexplored moves exactly one of them
\* is removed from the queue and rolled out, and the iteration attaches it
\* as a new child, growing the tree by exactly one node.
C20_ExpandsEveryIteration ==
    [][/\ AtUnexplored =>
              /\ pc' = "simulate"
              /\ pending'.parent = path
              /\ pending'.move \in SeqSet(tree[path].unexplored_moves)
              /\ Len(tree'[path].unexplored_moves) = Len(tree[path].unexplored_moves) - 1
              /\ pending'.move \notin SeqSet(tree'[path].unexplored_moves)
       /\ ExpansionEnds =>
              /\ NewChild \notin DOMAIN tree
              /\ DOMAIN tree' = DOMAIN tree \cup {NewChild}]_vars

\* a step of mcts_iteration that goes from the node at path into a child
Descends == Len(path') > Len(path)

\* C21: mcts_iteration descends into a child only from a node whose
\* unexplored queue is empty and whose visit count is at least 1; the
\* logarithm is taken of a count of at least 1 and every UCT score compared
\* is finite, so the comparison always has a result.
C21_DescentFromExpandedNode ==
    [][Descends =>
           /\ tree[path].unexplored_moves = <<>>
           /\ tree[path].visits >= 1
           /\ tree[path].visits \in DOMAIN ln_milli
           /\ \A i \in 1..Len(tree[path].children) :
                  /\ tree[Append(path, tree[path].children[i])].visits >= 1
                  /\ -INFINITY < child_ucts(tree, path)[i]
                  /\ child_ucts(tree, path)[i] < INFINITY
           /\ \E i \in 1..Len(tree[path].children) :
                  path' = Append(path, tree[path].children[i])]_vars

\* the iteration has descended from a root with an empty queue into its
\* only child
C21_Witness ==
    /\ pc = "iterate"
    /\ Len(path) = 1
    /\ tree[<<>>].unexplored_moves = <<>>
    /\ tree[<<>>].children = <<path[1]>>
    /\ tree[<<>>].visits = 2

\* the ranker has no move for the side to move in the rollout's position
RolloutStuck == generate_ranked_moves(sim.board, sim.current_player) = <<>>

C23_RolloutValue ==
    [][ExpansionEnds =>
           LET parent == tree[pending.parent]
               start  == move_piece(parent.board, pending.move[1], pending.move[2]).squares
           IN  /\ \E noise \in NoiseValues :
                      LET final == evaluate_position(sim.board, sim.current_player, noise).score
                          returned == Sign(sim.plies) * final
                      IN  /\ tree'[NewChild].total_value = -returned
                          /\ tree'[pending.parent].total_value
                                 = parent.total_value + tree'[NewChild].total_value
               /\ tree'[NewChild].board = start
               /\ tree'[NewChild].current_player = Opponent(parent.current_player)
               /\ tree'[pending.parent].board = parent.board
               /\ sim.current_player =
                      IF sim.plies % 2 = 0 THEN Opponent(parent.current_player)
                      ELSE parent.current_player
               /\ (sim.plies = 0 => sim.board = start)]_vars

\* a rollout has played an odd number of plies and is about to return
C23_Witness ==
    /\ pc = "simulate"
    /\ pending # NoPending
    /\ sim.plies % 2 = 1
    /\ RolloutStuck
    /\ sim.board # tree[pending.parent].board

\* ------------------------------------------------------------------------
\* Claims about the ranker's priorities and order
\* ------------------------------------------------------------------------
\* the priority the last generate_ranked_moves call gave the move
PriorityOf(mv) ==
    evaluate_move_priority(squares, mv[1], mv[2], analyze_board(squares, rcolor))

\* the square holds a piece of the colour that a piece of the other colour
\* can move onto: the target end of a threat against the colour
ThreatTarget(b, c, t) ==
    /\ is_some(b[t]) /\ b[t].color = c
    /\ \E s \in Squares :
           /\ is_some(b[s]) /\ b[s].color # c
           /\ move_piece(b, s, t).ret

\* the value of the piece standing on the square, 0 if it is empty
ValueOn(b, t) ==
    IF b[t] = None THEN 0
    ELSE MaterialOf([s \in Squares |-> IF s = t THEN b[t] ELSE None], b[t].color)

Central(t) == t[1] \in {3, 4} /\ t[2] \in {3, 4}

\* C24: the priority of a surviving move (from, to) is the value of the
\* piece standing on to before the move (0 if empty), plus 50 if the origin
\* square from is the target end of a threat against the mover in the
\* analysis of the original position, plus 10 if to is one of the four
\* central squares.
C24_Priority ==
    Ranked =>
        \A i \in 1..Len(ranked) :
            PriorityOf(ranked[i])
                = ValueOn(squares, ranked[i][2])
                  + (IF ThreatTarget(squares, rcolor, ranked[i][1]) THEN 50 ELSE 0)
                  + (IF Central(ranked[i][2]) THEN 10 ELSE 0)

\* C24 as stated: the 50 is given when the destination square to is the
\* target end of a threat against the mover.
C24_PriorityByDestination ==
    Ranked =>
        \A i \in 1..Len(ranked) :
            PriorityOf(ranked[i])
                = ValueOn(squares, ranked[i][2])
                  + (IF ThreatTarget(squares, rcolor, ranked[i][2]) THEN 50 ELSE 0)
                  + (IF Central(ranked[i][2]) THEN 10 ELSE 0)

\* the ranked list holds a capture by a threatened piece, a move to the
\* centre and a quiet move of an unthreatened piece
C24_Witness ==
    /\ Ranked
    /\ \E i \in 1..Len(ranked) :
           /\ ThreatTarget(squares, rcolor, ranked[i][1])
           /\ ValueOn(squares, ranked[i][2]) > 0
           /\ PriorityOf(ranked[i]) = ValueOn(squares, ranked[i][2]) + 50
    /\ \E i \in 1..Len(ranked) : PriorityOf(ranked[i]) = 10
    /\ \E i \in 1..Len(ranked) : PriorityOf(ranked[i]) = 0

\* the surviving moves of the last call with their priorities, in the
\* order of the scan, before the sort
Survivors ==
    moves_of(squares, rcolor,
             SelectSeq(SquareSeq, LAMBDA s : is_some(squares[s]) /\ squares[s].color = rcolor),
             analyze_board(squares, rcolor))

\* the place of a move in the scan: origins row by row, then destinations
ScanIndex(e) == ((e[1][1] * 8 + e[1][2]) * 64) + (e[2][1] * 8 + e[2][2])

\* q is by non-increasing priority, entries of equal priority in scan order
WellOrdered(q) ==
    \A i, j \in 1..Len(q) :
        i < j => \/ q[i][3] > q[j][3]
                 \/ q[i][3] = q[j][3] /\ ScanIndex(q[i]) < ScanIndex(q[j])

\* kept holds the n entries of all that come first by priority
KeepsHighest(all, kept, n) ==
    /\ Len(kept) = (IF Len(all) > n THEN n ELSE Len(all))
    /\ SeqSet(kept) \subseteq SeqSet(all)
    /\ \A x \in SeqSet(kept), y \in SeqSet(all) \ SeqSet(kept) : x[3] >= y[3]

\* C25: the list generate_ranked_moves returns is by non-increasing
\* priority, moves of equal priority in the order of the scan, holds no
\* move twice and at most 150 entries; a cap smaller than the number of
\* surviving moves keeps the highest-priority ones.
C25_RankedOrder ==
    Ranked =>
        then_apply(Survivors,
            LAMBDA all :
                /\ then_apply(truncate(sort_by_score(all), MAX_OPPONENT_MOVES),
                       LAMBDA kept :
                           /\ WellOrdered(kept)
                           /\ KeepsHighest(all, kept, 150)
                           /\ ranked = strip_score(kept))
                /\ \A n \in 0..Len(all) :
                       then_apply(truncate(sort_by_score(all), n),
                           LAMBDA kept : WellOrdered(kept) /\ KeepsHighest(all, kept, n))
                /\ Cardinality(SeqSet(ranked)) = Len(ranked)
                /\ Len(ranked) <= 150)

\* the list holds moves of three different priorities and several moves of
\* the lowest one
C25_Witness ==
    /\ Ranked
    /\ Len(ranked) >= 4
    /\ PriorityOf(ranked[1]) > PriorityOf(ranked[2])
    /\ PriorityOf(ranked[2]) > PriorityOf(ranked[Len(ranked) - 1])
    /\ PriorityOf(ranked[Len(ranked) - 1]) = PriorityOf(ranked[Len(ranked)])

\* ------------------------------------------------------------------------
\* Claims about the analysis of a position
\* ------------------------------------------------------------------------
\* the squares next to k on the board, k itself not among them
Neighbours(k) ==
    {s \in Squares : s # k /\ abs(s[1] - k[1]) <= 1 /\ abs(s[2] - k[2]) <= 1}

\* the enemy pieces that can move onto k
Attackers(b, c, k) ==
    {s \in Squares : is_some(b[s]) /\ b[s].color # c /\ move_piece(b, s, k).ret}

\* C26: the king-safety score of a colour whose king stands on K is the
\* number of squares neighbouring K, K itself not counted, that hold a
\* piece of the colour, minus twice the number of enemy pieces that can
\* move onto K; it is 0 when the colour has no king.
C26_KingSafety ==
    \A i \in 1..Len(analyses) :
        LET a == analyses[i]
            kings == KingSquares(a.board, a.color)
        IN  /\ kings = {} => a.analysis.king_safety = 0
            /\ \A k \in kings :
                   a.analysis.king_safety
                       = Cardinality({s \in Neighbours(k) :
                                         is_some(a.board[s]) /\ a.board[s].color = a.color})
                         - 2 * Cardinality(Attackers(a.board, a.color, k))

\* the squares of a sequence of squares
RangeOf(l) == {l[i] : i \in 1..Len(l)}

\* the destinations for which move_piece succeeds from pos
Reachable(b, pos) == {to \in Squares : move_piece(b, pos, to).ret}

\* the four central squares
CentralSquares == {<<3, 3>>, <<3, 4>>, <<4, 3>>, <<4, 4>>}

\* C27: in every analysis the mobility map has one entry for every occupied
\* square, of either colour, and the entry lists exactly the squares for
\* which move_piece succeeds from it, each once; the controlled squares are
\* the union of the lists; center control is the number of central squares
\* among them; and two analyses of one position, whatever their colours,
\* agree on the controlled squares, the total mobility and center control.
C27_MobilityAndControl ==
    \A i \in 1..Len(analyses) :
        LET a == analyses[i]
            m == a.analysis.piece_mobility
        IN  /\ {m[j][1] : j \in 1..Len(m)} = {s \in Squares : is_some(a.board[s])}
            /\ \A j, k \in 1..Len(m) : m[j][1] = m[k][1] => j = k
            /\ \A j \in 1..Len(m) :
                   /\ RangeOf(m[j][2]) = Reachable(a.board, m[j][1])
                   /\ Len(m[j][2]) = Cardinality(Reachable(a.board, m[j][1]))
            /\ a.analysis.controlled_squares
                   = UNION {RangeOf(m[j][2]) : j \in 1..Len(m)}
            /\ a.analysis.center_control
                   = Cardinality(a.analysis.controlled_squares \cap CentralSquares)
            /\ \A h \in 1..Len(analyses) :
                   analyses[h].board = a.board
                       => /\ analyses[h].analysis.controlled_squares
                                 = a.analysis.controlled_squares
                          /\ mobility_sum(analyses[h].analysis.piece_mobility)
                                 = mobility_sum(m)
                          /\ analyses[h].analysis.center_control
                                 = a.analysis.center_control

\* one position has been analysed for White and for Black; pieces of both
\* colours have moves, and a central square is controlled
C27_Witness ==
    /\ Len(analyses) = 2
    /\ analyses[1].color # analyses[2].color
    /\ analyses[1].board = analyses[2].board
    /\ \A c \in Color :
           \E j \in 1..Len(analyses[1].analysis.piece_mobility) :
               LET e == analyses[1].analysis.piece_mobility[j]
               IN  analyses[1].board[e[1]].color = c /\ e[2] # <<>>
    /\ analyses[1].analysis.center_control > 0

\* the entry of top_moves for the root child reached by the move
TopEntry(t, mv) ==
    <<move_string(mv),
      [num |-> t[<<mv>>].total_value, den |-> t[<<mv>>].visits],
      t[<<mv>>].visits>>

\* q lists min(3, number of root children) different root children with
\* their average value and visits, by non-increasing visits, and no child
\* left out has more visits than a listed one
TopThree(t, q) ==
    LET kids == RangeOf(t[<<>>].children)
    IN  /\ Len(q) = (IF Cardinality(kids) < 3 THEN Cardinality(kids) ELSE 3)
        /\ \A i \in 1..Len(q) : \E mv \in kids : q[i] = TopEntry(t, mv)
        /\ \A i, j \in 1..Len(q) : q[i][1] = q[j][1] => i = j
        /\ \A i \in 1..(Len(q) - 1) : q[i][3] >= q[i + 1][3]
        /\ \A mv \in kids :
               (\A i \in 1..Len(q) : q[i] # TopEntry(t, mv))
                   => \A i \in 1..Len(q) : q[i][3] >= t[<<mv>>].visits

\* C28: a pass of the loop that completes an iteration whose number is a
\* multiple of 50 leaves in top_moves the three (or fewer) most visited root
\* children in non-increasing order of visits, with average value and
\* visits, and in current_eval the value the iteration returned (the value
\* the root was credited with); a pass completing any other iteration
\* leaves both as they were.
C28_StatsCadence ==
    [][stats'.total_simulations = stats.total_simulations + 1
           => IF stats'.total_simulations % 50 = 0
              THEN /\ TopThree(tree', stats'.top_moves)
                   /\ stats'.current_eval
                          = tree'[<<>>].total_value - tree[<<>>].total_value
              ELSE /\ stats'.top_moves = stats.top_moves
                   /\ stats'.current_eval = stats.current_eval]_vars

\* the 50th iteration has listed three of four root children, not all
\* equally visited, and the 51st has left the list and the estimate alone
C28_Witness ==
    /\ stats.total_simulations = 51
    /\ Len(Root.children) = 4
    /\ Len(stats.top_moves) = 3
    /\ stats.top_moves[1][3] > stats.top_moves[3][3]
    /\ \E mv \in RangeOf(Root.children) :
           /\ \A i \in 1..3 : stats.top_moves[i] # TopEntry(tree, mv)
           /\ tree[<<mv>>].visits = stats.top_moves[3][3]
    /\ stats.current_eval = 40
    /\ Root.total_value = 40 + 40 - 35

\* every move in the unexplored queue of the node is accepted by move_piece
\* on the node's own position
QueueApplies(node) ==
    \A i \in 1..Len(node.unexplored_moves) :
        move_piece(node.board, node.unexplored_moves[i][1],
                   node.unexplored_moves[i][2]).ret

\* the nodes of the tree
TreeQueuesApply == \A p \in DOMAIN tree : QueueApplies(tree[p])

\* the node the running rollout stands on
RolloutQueueApplies ==
    pc = "simulate" =>
        then_apply(MCTSNode_new(sim.board, sim.current_player).unexplored_moves,
                   LAMBDA queue :
                       QueueApplies([board |-> sim.board, unexplored_moves |-> queue]))

\* a step in which mcts_iteration takes a move out of an unexplored queue
TakesQueuedMove ==
    /\ pc = "iterate"
    /\ Len(tree'[path].unexplored_moves) < Len(tree[path].unexplored_moves)

\* C29: at every point of the search each queued move of each node, of the
\* tree or of a rollout, applies to the node's position, and whenever mcts_iteration takes a move out of a
\* queue the move is applied and the rollout of the new child begins: the
\* branch that calls mcts_iteration again on the same node is not taken.
C29_QueuedMovesApply ==
    [][/\ TreeQueuesApply
       /\ TreeQueuesApply'
       /\ RolloutQueueApplies
       /\ TakesQueuedMove =>
              /\ pc' = "simulate"
              /\ pending'.parent = path
              /\ sim'.plies = 0]_vars

\* a node below the root is being expanded and has more moves waiting; the
\* node its rollout stands on has moves as well
C29_Witness ==
    /\ pc = "simulate"
    /\ Len(pending.parent) >= 1
    /\ tree[pending.parent].unexplored_moves # <<>>
    /\ MCTSNode_new(sim.board, sim.current_player).unexplored_moves # <<>>

\* the visits of the children of the node at path p, added up
RECURSIVE VisitsOfChildren(_, _)
VisitsOfChildren(p, i) ==
    IF i = 0 THEN 0
    ELSE tree[Append(p, tree[p].children[i])].visits + VisitsOfChildren(p, i - 1)

\* a step that begins a new search
NewSearch == pc \in {"idle", "done"} /\ pc' = "loop"

\* at least one iteration of the running search has been completed and none
\* is under way
IterationCompleted == pc \in {"loop", "done"} /\ stats.total_simulations >= 1

\* C30: within one search no node disappears and no node's visits go down;
\* after each completed iteration the visits of the root are the number of
\* completed iterations, and every node for whose position the ranker
\* returns moves has one visit more than its children have together.
C30_VisitAccounting ==
    [][/\ ~NewSearch =>
              \A p \in DOMAIN tree :
                  /\ p \in DOMAIN tree'
                  /\ tree'[p].visits >= tree[p].visits
       /\ IterationCompleted =>
              /\ Root.visits = stats.total_simulations
              /\ \A p \in DOMAIN tree :
                     generate_ranked_moves(tree[p].board,
                                           tree[p].current_player) # <<>>
                         => tree[p].visits
                                = 1 + VisitsOfChildren(p, Len(tree[p].children))]_vars

\* four iterations are completed; a child of the root has been visited more
\* than once and has a child of its own
C30_Witness ==
    /\ IterationCompleted
    /\ Root.visits = 4
    /\ \E p \in DOMAIN tree :
           /\ Len(p) = 1
           /\ tree[p].children # <<>>
           /\ tree[p].visits = 1 + VisitsOfChildren(p, Len(tree[p].children))
           /\ tree[p].visits >= 2

====
